---- MODULE Spec2Model ----
(***************************************************************************)
(* The RocksDB-backed quad store of oxigraph (lib/src/store/rocksdb.rs):   *)
(* seven column families (the id2str dictionary and six index              *)
(* permutations), write batches buffered by explicit and automatic         *)
(* transactions, and the atomic write of a batch into the shared database. *)
(*                                                                         *)
(* One client thread (the "session") performs the store's calls one after  *)
(* the other: insert, remove, transaction(closure), load_graph and         *)
(* load_dataset.  The closure and the bulk loads advance one operation at  *)
(* a time, so that the states between two buffered operations and between  *)
(* two automatic flushes are states of the model.  Meanwhile other threads *)
(* insert and remove quads through clones of the store.                    *)
(*                                                                         *)
(* A rocksdb WriteBatch is kept in normal form: the number of operations   *)
(* it holds (WriteBatch::len) and, for every cell it touches, the last     *)
(* operation buffered for that cell, which is what DB::write applies.      *)
(***************************************************************************)
EXTENDS Integers, Sequences, FiniteSets, TLC

VARIABLES
    db,         \* the DB behind Arc<DB>: column family -> (key -> value)
    shadow,     \* history: the database as it would be without the writes of the session's current call
    pc,         \* where the session is: "idle", "closure" (inside transaction(f)), "load" (inside load_graph/load_dataset)
    call,       \* the session's current or last call
    batch,      \* RocksDbInnerTransaction.batch of the session's transaction
    nOps,       \* number of insert and remove calls the running closure has made
    nRead,      \* number of triples the parser of the running call has produced
    result,     \* what the last finished call returned
    writes,     \* history: number of DB::write calls the session's current call has made
    persisted,  \* history: positions (in the input of the running call) of the quads a successful DB::write has written
    fed,        \* history: the triples the parser of the current load has produced, less those another thread removed since
    pattern,    \* the arguments of the session's last quads_for_pattern call
    yielded,    \* the items the iterator that call returned yields, in order
    stored,     \* history: the quads the reading session has inserted and not removed since
    cursor,     \* an iterator quads_for_pattern returned that is not collected at once: what its DBRawIterator has still to give
    query,      \* the SPARQL query the session runs: its SERVICE clause, its handler, and the solution iterator it returned
    collected,  \* the items taken from that iterator so far, in order
    host,       \* the host (JavaScript) value last handed to the DataFactory
    produced    \* what the DataFactory returned for it

vars == <<db, shadow, pc, call, batch, nOps, nRead, result, writes, persisted, fed, pattern, yielded, stored,
          cursor, query, collected, host, produced>>

----------------------------------------------------------------------------
(* Bounds *)

MaxLoadLen == 116     \* quads one bulk load (or one closure) inserts at most
MaxTxOps == 1         \* insert and remove calls one closure makes at most
MaxQuads == 3         \* quads the store holds at most while patterns are read
MaxClauses == 2       \* SERVICE clauses a query has at most
MaxIdLen == 2         \* characters of the short blank node identifiers the host hands over

----------------------------------------------------------------------------
(* Program constants *)

MAX_TRANSACTION_SIZE == 1024

ID2STR_CF == "id2str"
SPOG_CF == "spog"
POSG_CF == "posg"
OSPG_CF == "ospg"
GSPO_CF == "gspo"
GPOS_CF == "gpos"
GOSP_CF == "gosp"

COLUMN_FAMILIES == {ID2STR_CF, SPOG_CF, POSG_CF, OSPG_CF, GSPO_CF, GPOS_CF, GOSP_CF}

IndexCFs == COLUMN_FAMILIES \ {ID2STR_CF}

----------------------------------------------------------------------------
(* Terms, quads and their encoding (numeric_encoder) *)

None == <<>>
Some(x) == <<x>>

\* The IRIs of the model.  "a" and "b" are two distinct strings with the same hash.
Strings == {"", "a", "b", "c", "p", "g"}

\* StrHash::new: a hash of the string; not injective.
StrHash(s) ==
    CASE s = "" -> 0
      [] s = "a" -> 1
      [] s = "b" -> 1
      [] s = "c" -> 2
      [] s = "p" -> 3
      [] s = "g" -> 4

TYPE_DEFAULT_GRAPH_ID == 0
TYPE_NAMED_NODE_ID == 1

\* An encoded term as write_term writes it: the type byte, then the payload.
ENCODED_DEFAULT_GRAPH == <<TYPE_DEFAULT_GRAPH_ID, 0>>
EncodedNamedNode(iri) == <<TYPE_NAMED_NODE_ID, StrHash(iri)>>

\* The strings set_first_strings stores when a store is opened.
FirstStrings == {""}

\* Quad::new(subject, predicate, object, graph_name)
Quad(s, p, o, g) == [subject |-> s, predicate |-> p, object |-> o, graph_name |-> g]

\* The loader (load_graph, load_dataset): a parsed triple becomes a quad of
\* the target graph, the default graph when there is none.
LoadedQuad(t, g) == Quad(t[1], t[2], t[3], g)

\* The triples and graphs the calls of the model are made with.
TriplePool == {<<"a", "p", "c">>, <<"b", "p", "c">>}
GraphPool == {None, Some("g")}
QuadPool == {Quad(t[1], t[2], t[3], g) : t \in TriplePool, g \in GraphPool}

\* The quads other threads insert and remove.
OtherPool == {q \in QuadPool : q.subject = "a"}

\* impl From<&Quad> for EncodedQuad: hashes the strings, stores nothing.
EncodedGraphName(g) == IF g = None THEN ENCODED_DEFAULT_GRAPH ELSE EncodedNamedNode(g[1])

EncodedQuadOf(q) ==
    [subject |-> EncodedNamedNode(q.subject),
     predicate |-> EncodedNamedNode(q.predicate),
     object |-> EncodedNamedNode(q.object),
     graph_name |-> EncodedGraphName(q.graph_name)]

EncodedPool == {EncodedQuadOf(q) : q \in QuadPool}

\* The key of a quad in each index: the four encoded terms in the order of the index.
write_spog_quad(e) == e.subject \o e.predicate \o e.object \o e.graph_name
write_posg_quad(e) == e.predicate \o e.object \o e.subject \o e.graph_name
write_ospg_quad(e) == e.object \o e.subject \o e.predicate \o e.graph_name
write_gspo_quad(e) == e.graph_name \o e.subject \o e.predicate \o e.object
write_gpos_quad(e) == e.graph_name \o e.predicate \o e.object \o e.subject
write_gosp_quad(e) == e.graph_name \o e.object \o e.subject \o e.predicate

KeyIn(cf, e) ==
    CASE cf = SPOG_CF -> write_spog_quad(e)
      [] cf = POSG_CF -> write_posg_quad(e)
      [] cf = OSPG_CF -> write_ospg_quad(e)
      [] cf = GSPO_CF -> write_gspo_quad(e)
      [] cf = GPOS_CF -> write_gpos_quad(e)
      [] cf = GOSP_CF -> write_gosp_quad(e)

\* The i-th encoded term of a key
TermAt(key, i) == SubSeq(key, 2 * i - 1, 2 * i)

EncodedQuad(s, p, o, g) == [subject |-> s, predicate |-> p, object |-> o, graph_name |-> g]

\* The quad a key of each index decodes to
read_spog_quad(k) == EncodedQuad(TermAt(k, 1), TermAt(k, 2), TermAt(k, 3), TermAt(k, 4))
read_posg_quad(k) == EncodedQuad(TermAt(k, 3), TermAt(k, 1), TermAt(k, 2), TermAt(k, 4))
read_ospg_quad(k) == EncodedQuad(TermAt(k, 2), TermAt(k, 3), TermAt(k, 1), TermAt(k, 4))
read_gspo_quad(k) == EncodedQuad(TermAt(k, 2), TermAt(k, 3), TermAt(k, 4), TermAt(k, 1))
read_gpos_quad(k) == EncodedQuad(TermAt(k, 4), TermAt(k, 2), TermAt(k, 3), TermAt(k, 1))
read_gosp_quad(k) == EncodedQuad(TermAt(k, 3), TermAt(k, 4), TermAt(k, 2), TermAt(k, 1))

QuadIn(cf, k) ==
    CASE cf = SPOG_CF -> read_spog_quad(k)
      [] cf = POSG_CF -> read_posg_quad(k)
      [] cf = OSPG_CF -> read_ospg_quad(k)
      [] cf = GSPO_CF -> read_gspo_quad(k)
      [] cf = GPOS_CF -> read_gpos_quad(k)
      [] cf = GOSP_CF -> read_gosp_quad(k)

----------------------------------------------------------------------------
(* rocksdb: WriteBatch and DB, as the store uses them *)

\* WriteBatch::default()
WriteBatch_default == [len |-> 0, ops |-> <<>>, quads |-> {}]

\* batch.put_cf(cf, key, value)
put_cf(b, cf, key, value) ==
    [len |-> b.len + 1,
     ops |-> (<<cf, key>> :> [kind |-> "put", value |-> value]) @@ b.ops,
     quads |-> b.quads]


\* A delete that gives way to an operation the batch already holds for the key
delete_cf_earlier_wins(b, cf, key) ==
    [len |-> b.len + 1,
     ops |-> b.ops @@ (<<cf, key>> :> [kind |-> "delete", value |-> <<>>]),
     quads |-> b.quads]

\* batch.delete_cf(cf, key)
delete_cf(b, cf, key) ==
    [len |-> b.len + 1,
     ops |-> (<<cf, key>> :> [kind |-> "delete", value |-> <<>>]) @@ b.ops,
     quads |-> b.quads]

\* db.write(batch) when it succeeds: every operation of the batch is applied, atomically.
DB_write(d, b) ==
    [cf \in COLUMN_FAMILIES |->
        LET touched == {c[2] : c \in {x \in DOMAIN b.ops : x[1] = cf}}
            puts == {k \in touched : b.ops[<<cf, k>>].kind = "put"}
            kept == (DOMAIN d[cf]) \ touched
        IN  [k \in kept \cup puts |->
                IF k \in puts THEN b.ops[<<cf, k>>].value ELSE d[cf][k]]]

\* DB::open_cf on a fresh path with create_if_missing and create_missing_column_families
EmptyDB == [cf \in COLUMN_FAMILIES |-> <<>>]

\* self.db.get_pinned_cf(cf, key)?.is_some()
HasKey(d, cf, key) == key \in DOMAIN d[cf]

----------------------------------------------------------------------------
(* Transactions: RocksDbInnerTransaction and its two wrappers *)

\* StrHash::to_le_bytes: the key of a string in id2str
to_le_bytes(h) == <<h>>

\* An insert_str that stages nothing
insert_str_dropped(b, key, value) == b

\* RocksDbInnerTransaction::insert_str
insert_str(b, key, value) == put_cf(b, ID2STR_CF, to_le_bytes(key), value)

\* Encoder::encode_quad on a StrContainer: stores every string of the quad
\* with insert_str and returns the encoded quad.
encode_quad(b, q) ==
    LET b1 == insert_str(b, StrHash(q.subject), q.subject)
        b2 == insert_str(b1, StrHash(q.predicate), q.predicate)
        b3 == insert_str(b2, StrHash(q.object), q.object)
        b4 == IF q.graph_name = None
              THEN b3
              ELSE insert_str(b3, StrHash(q.graph_name[1]), q.graph_name[1])
    IN  [batch |-> b4, quad |-> EncodedQuadOf(q)]

\* set_first_strings on a StrContainer
set_first_strings(b) ==
    LET RECURSIVE store(_, _)
        store(bb, S) ==
            IF S = {} THEN bb
            ELSE LET s == CHOOSE x \in S : TRUE
                 IN  store(insert_str(bb, StrHash(s), s), S \ {s})
    IN  store(b, FirstStrings)

\* RocksDbInnerTransaction::insert
insert(b, quad) ==
    LET b1 == put_cf(b, SPOG_CF, write_spog_quad(quad), <<>>)
        b2 == put_cf(b1, POSG_CF, write_posg_quad(quad), <<>>)
        b3 == put_cf(b2, OSPG_CF, write_ospg_quad(quad), <<>>)
        b4 == put_cf(b3, GSPO_CF, write_gspo_quad(quad), <<>>)
        b5 == put_cf(b4, GPOS_CF, write_gpos_quad(quad), <<>>)
        b6 == put_cf(b5, GOSP_CF, write_gosp_quad(quad), <<>>)
    IN  b6

\* A remove that also deletes the string of the subject
remove_with_strings(b, quad) ==
    LET b1 == delete_cf(b, SPOG_CF, write_spog_quad(quad))
        b2 == delete_cf(b1, POSG_CF, write_posg_quad(quad))
        b3 == delete_cf(b2, OSPG_CF, write_ospg_quad(quad))
        b4 == delete_cf(b3, GSPO_CF, write_gspo_quad(quad))
        b5 == delete_cf(b4, GPOS_CF, write_gpos_quad(quad))
        b6 == delete_cf(b5, GOSP_CF, write_gosp_quad(quad))
    IN  delete_cf(b6, ID2STR_CF, to_le_bytes(quad.subject[2]))

\* A remove that leaves the key of the gosp index
remove_keeps_gosp(b, quad) ==
    LET b1 == delete_cf(b, SPOG_CF, write_spog_quad(quad))
        b2 == delete_cf(b1, POSG_CF, write_posg_quad(quad))
        b3 == delete_cf(b2, OSPG_CF, write_ospg_quad(quad))
        b4 == delete_cf(b3, GSPO_CF, write_gspo_quad(quad))
        b5 == delete_cf(b4, GPOS_CF, write_gpos_quad(quad))
    IN  b5

\* RocksDbInnerTransaction::remove
remove(b, quad) ==
    LET b1 == delete_cf(b, SPOG_CF, write_spog_quad(quad))
        b2 == delete_cf(b1, POSG_CF, write_posg_quad(quad))
        b3 == delete_cf(b2, OSPG_CF, write_ospg_quad(quad))
        b4 == delete_cf(b3, GSPO_CF, write_gspo_quad(quad))
        b5 == delete_cf(b4, GPOS_CF, write_gpos_quad(quad))
        b6 == delete_cf(b5, GOSP_CF, write_gosp_quad(quad))
    IN  b6

\* What a step of a transaction leaves behind: the database, the batch, whether
\* it returned Ok, and (history) the number of DB::write calls it made and the
\* input positions whose writes reached the database.
Outcome(d, b, ok, n, written) == [db |-> d, batch |-> b, ok |-> ok, writes |-> n, written |-> written]

\* The operations of the batch b on the column families of the set cfs
OpsOn(b, cfs) ==
    [b EXCEPT !.ops = [c \in {x \in DOMAIN b.ops : x[1] \in cfs} |-> b.ops[c]]]

\* A commit that writes the strings in a write of their own, before the quads
commit_strings_first(d, b, io) ==
    IF io THEN Outcome(DB_write(d, b), WriteBatch_default, TRUE, 1, b.quads)
          ELSE Outcome(DB_write(d, OpsOn(b, {ID2STR_CF})), WriteBatch_default, FALSE, 1, {})

\* A commit that writes one column family after the other, and fails after spog
commit_index_by_index(d, b, io) ==
    IF io THEN Outcome(DB_write(d, b), WriteBatch_default, TRUE, 1, b.quads)
          ELSE Outcome(DB_write(d, OpsOn(b, {ID2STR_CF, SPOG_CF})), WriteBatch_default, FALSE, 1, {})

\* RocksDbInnerTransaction::commit; io says whether DB::write succeeds.
commit(d, b, io) ==
    IF io THEN Outcome(DB_write(d, b), WriteBatch_default, TRUE, 1, b.quads)
          ELSE Outcome(d, WriteBatch_default, FALSE, 1, {})

\* A commit_if_big that writes the batch without taking it
commit_if_big_keeps_batch(d, b, io) ==
    IF b.len > MAX_TRANSACTION_SIZE
    THEN IF io THEN Outcome(DB_write(d, b), b, TRUE, 1, b.quads)
               ELSE Outcome(d, b, FALSE, 1, {})
    ELSE Outcome(d, b, TRUE, 0, {})


\* A size check that empties a big batch without writing it
commit_if_big_drops_batch(d, b, io) ==
    IF b.len > MAX_TRANSACTION_SIZE
    THEN Outcome(d, WriteBatch_default, TRUE, 0, {})
    ELSE Outcome(d, b, TRUE, 0, {})

\* A size check that never writes the batch
commit_if_big_never(d, b, io) == Outcome(d, b, TRUE, 0, {})

\* RocksDbAutoTransaction::commit_if_big
commit_if_big(d, b, io) ==
    IF b.len > MAX_TRANSACTION_SIZE
    THEN IF io THEN Outcome(DB_write(d, b), WriteBatch_default, TRUE, 1, b.quads)
               ELSE Outcome(d, WriteBatch_default, FALSE, 1, {})
    ELSE Outcome(d, b, TRUE, 0, {})

\* An insert_encoded of the explicit transaction that flushes as the auto one does
tx_insert_encoded_flushing(d, b, quad, io) ==
    IF insert(b, quad).len > MAX_TRANSACTION_SIZE
    THEN Outcome(DB_write(d, insert(b, quad)), WriteBatch_default, TRUE, 1, insert(b, quad).quads)
    ELSE Outcome(d, insert(b, quad), TRUE, 0, {})

\* impl WritableEncodedStore for RocksDbTransaction
tx_insert_encoded(d, b, quad, io) == Outcome(d, insert(b, quad), TRUE, 0, {})
tx_remove_encoded(d, b, quad, io) == Outcome(d, remove(b, quad), TRUE, 0, {})

\* An insert_encoded that checks the size after the third of the six writes
auto_insert_encoded_checks_midway(d, b, quad, io) ==
    LET b1 == put_cf(b, SPOG_CF, write_spog_quad(quad), <<>>)
        b2 == put_cf(b1, POSG_CF, write_posg_quad(quad), <<>>)
        b3 == put_cf(b2, OSPG_CF, write_ospg_quad(quad), <<>>)
        r == commit_if_big(d, b3, io)
        b4 == put_cf(r.batch, GSPO_CF, write_gspo_quad(quad), <<>>)
        b5 == put_cf(b4, GPOS_CF, write_gpos_quad(quad), <<>>)
        b6 == put_cf(b5, GOSP_CF, write_gosp_quad(quad), <<>>)
    IN  IF r.ok THEN Outcome(r.db, b6, TRUE, r.writes, r.written) ELSE r

\* impl WritableEncodedStore for RocksDbAutoTransaction
auto_insert_encoded(d, b, quad, io) == commit_if_big(d, insert(b, quad), io)
auto_remove_encoded(d, b, quad, io) == commit_if_big(d, remove(b, quad), io)

\* Two steps of one call, one after the other: the second runs if the first returned Ok.
AndThen(first, second) ==
    IF first.ok
    THEN [second EXCEPT !.writes = @ + first.writes, !.written = @ \cup first.written]
    ELSE first

\* RocksDbStoreHandle::contains
contains(d, quad) == HasKey(d, SPOG_CF, write_spog_quad(quad))

\* RocksDbStore::insert; io1 and io2 are the outcomes of the two possible writes.
StoreInsert(d, q, io1, io2) ==
    LET enc == encode_quad(WriteBatch_default, q)
        ins == auto_insert_encoded(d, enc.batch, enc.quad, io1)
    IN  AndThen(ins, commit(ins.db, ins.batch, io2))

\* RocksDbStore::remove
StoreRemove(d, q, io1, io2) ==
    LET rem == auto_remove_encoded(d, WriteBatch_default, EncodedQuadOf(q), io1)
    IN  AndThen(rem, commit(rem.db, rem.batch, io2))

\* RocksDbStore::open on a fresh path
StoreOpen(d) == commit(d, set_first_strings(WriteBatch_default), TRUE).db

\* A transaction that commits whatever the closure returned
StoreTransaction_commits_anyway(d, b, closureOk, io) ==
    IF io THEN Outcome(DB_write(d, b), WriteBatch_default, closureOk, 1, b.quads)
          ELSE Outcome(d, WriteBatch_default, FALSE, 1, {})

\* An open that creates the database anew
StoreReopen_anew(d, io) == commit(EmptyDB, set_first_strings(WriteBatch_default), io)

\* RocksDbStore::open on a path that holds the database d; io says whether
\* the write of the first strings succeeds.
StoreReopen(d, io) == commit(d, set_first_strings(WriteBatch_default), io)

\* RocksDbStore::transaction once the closure f has returned:
\* f(&mut transaction)?; transaction.commit()
StoreTransaction(d, b, closureOk, io) ==
    IF closureOk THEN commit(d, b, io) ELSE Outcome(d, WriteBatch_default, FALSE, 0, {})

\* A load that returns without the final commit
StoreLoad_without_commit(d, b, loaded, io) ==
    Outcome(d, WriteBatch_default, loaded, 0, {})

\* RocksDbStore::load_graph and load_dataset once the loader has returned:
\* load_graph(&mut transaction, ...)?; transaction.commit()
StoreLoad(d, b, loaded, io) ==
    IF loaded THEN commit(d, b, io) ELSE Outcome(d, WriteBatch_default, FALSE, 0, {})

\* A clone that opens a database of its own
StoreDb_own_database(s, d) == IF s = "store" THEN d ELSE StoreOpen(EmptyDB)

\* The clones of a RocksDbStore: #[derive(Clone)] on a struct that holds an
\* Arc<DB>, so every clone reads and writes the one database.
Clones == {"store", "clone"}
StoreDb(s, d) == d

----------------------------------------------------------------------------
(* Reads: quads_for_pattern and the prefix scans behind it *)

\* Bytewise lexicographic order of keys, the order of a rocksdb column family
LexLess(a, b) ==
    \/ Len(a) < Len(b) /\ SubSeq(b, 1, Len(a)) = a
    \/ \E i \in 1 .. (IF Len(a) < Len(b) THEN Len(a) ELSE Len(b)) :
          /\ a[i] < b[i]
          /\ \A j \in 1 .. (i - 1) : a[j] = b[j]

\* db.raw_iterator_cf(cf): the keys of the column family, in order
raw_iterator_cf(d, cf) ==
    LET RECURSIVE sorted(_)
        sorted(S) ==
            IF S = {} THEN <<>>
            ELSE LET k == CHOOSE x \in S : \A y \in S \ {x} : LexLess(x, y)
                 IN  <<k>> \o sorted(S \ {k})
    IN  sorted(DOMAIN d[cf])

\* iter.seek(prefix): the position of the first key that is not below prefix
seek(keys, prefix) ==
    IF \E i \in 1 .. Len(keys) : ~LexLess(keys[i], prefix)
    THEN CHOOSE i \in 1 .. Len(keys) :
            /\ ~LexLess(keys[i], prefix)
            /\ \A j \in 1 .. (i - 1) : LexLess(keys[j], prefix)
    ELSE Len(keys) + 1

\* key.starts_with(prefix)
starts_with(key, prefix) ==
    Len(prefix) <= Len(key) /\ SubSeq(key, 1, Len(prefix)) = prefix

\* DecodingIndexIterator: what next() yields from position i on, until the
\* iterator is exhausted or a key does not start with the prefix
RECURSIVE DecodingIndexIterator(_, _, _, _)
DecodingIndexIterator(keys, i, prefix, cf) ==
    IF i <= Len(keys) /\ starts_with(keys[i], prefix)
    THEN <<QuadIn(cf, keys[i])>> \o DecodingIndexIterator(keys, i + 1, prefix, cf)
    ELSE <<>>

\* RocksDbStoreHandle::inner_quads
inner_quads(d, cf, prefix) ==
    LET iter == raw_iterator_cf(d, cf)
    IN  DecodingIndexIterator(iter, seek(iter, prefix), prefix, cf)

spog_quads(d, prefix) == inner_quads(d, SPOG_CF, prefix)
posg_quads(d, prefix) == inner_quads(d, POSG_CF, prefix)
ospg_quads(d, prefix) == inner_quads(d, OSPG_CF, prefix)
gspo_quads(d, prefix) == inner_quads(d, GSPO_CF, prefix)
gpos_quads(d, prefix) == inner_quads(d, GPOS_CF, prefix)
gosp_quads(d, prefix) == inner_quads(d, GOSP_CF, prefix)

\* encode_term, encode_term_pair, encode_term_triple: the prefix of one, two, three terms
encode_term(t) == t
encode_term_pair(t1, t2) == t1 \o t2
encode_term_triple(t1, t2, t3) == t1 \o t2 \o t3

quads(d) == spog_quads(d, <<>>)
quads_for_subject(d, s) == spog_quads(d, encode_term(s))
quads_for_subject_predicate(d, s, p) == spog_quads(d, encode_term_pair(s, p))
quads_for_subject_predicate_object(d, s, p, o) == spog_quads(d, encode_term_triple(s, p, o))
\* A scan for subject and object whose prefix has the terms in logical order
quads_for_subject_object_logical_order(d, s, o) == ospg_quads(d, encode_term_pair(s, o))
quads_for_subject_object(d, s, o) == ospg_quads(d, encode_term_pair(o, s))
quads_for_predicate(d, p) == posg_quads(d, encode_term(p))
quads_for_predicate_object(d, p, o) == posg_quads(d, encode_term_pair(p, o))
quads_for_object(d, o) == ospg_quads(d, encode_term(o))
quads_for_graph(d, g) == gspo_quads(d, encode_term(g))
quads_for_subject_graph(d, s, g) == gspo_quads(d, encode_term_pair(g, s))
quads_for_subject_predicate_graph(d, s, p, g) == gspo_quads(d, encode_term_triple(g, s, p))
quads_for_subject_object_graph(d, s, o, g) == gosp_quads(d, encode_term_triple(g, o, s))
quads_for_predicate_graph(d, p, g) == gpos_quads(d, encode_term_pair(g, p))
quads_for_predicate_object_graph(d, p, o, g) == gpos_quads(d, encode_term_triple(g, p, o))
quads_for_object_graph(d, o, g) == gosp_quads(d, encode_term_pair(g, o))

\* RocksDbStore::encoded_quads_for_pattern; each argument is None or Some(term)
encoded_quads_for_pattern(d, subject, predicate, object, graph_name) ==
    IF subject # None
    THEN IF predicate # None
         THEN IF object # None
              THEN IF graph_name # None
                   THEN LET quad == EncodedQuad(subject[1], predicate[1], object[1], graph_name[1])
                        IN  IF contains(d, quad) THEN <<quad>> ELSE <<>>
                   ELSE quads_for_subject_predicate_object(d, subject[1], predicate[1], object[1])
              ELSE IF graph_name # None
                   THEN quads_for_subject_predicate_graph(d, subject[1], predicate[1], graph_name[1])
                   ELSE quads_for_subject_predicate(d, subject[1], predicate[1])
         ELSE IF object # None
              THEN IF graph_name # None
                   THEN quads_for_subject_object_graph(d, subject[1], object[1], graph_name[1])
                   ELSE quads_for_subject_object(d, subject[1], object[1])
              ELSE IF graph_name # None
                   THEN quads_for_subject_graph(d, subject[1], graph_name[1])
                   ELSE quads_for_subject(d, subject[1])
    ELSE IF predicate # None
         THEN IF object # None
              THEN IF graph_name # None
                   THEN quads_for_predicate_object_graph(d, predicate[1], object[1], graph_name[1])
                   ELSE quads_for_predicate_object(d, predicate[1], object[1])
              ELSE IF graph_name # None
                   THEN quads_for_predicate_graph(d, predicate[1], graph_name[1])
                   ELSE quads_for_predicate(d, predicate[1])
         ELSE IF object # None
              THEN IF graph_name # None
                   THEN quads_for_object_graph(d, object[1], graph_name[1])
                   ELSE quads_for_object(d, object[1])
              ELSE IF graph_name # None
                   THEN quads_for_graph(d, graph_name[1])
                   ELSE quads(d)

\* impl StrLookup for RocksDbStore: get_str
get_str(d, id) ==
    IF HasKey(d, ID2STR_CF, to_le_bytes(id)) THEN Some(d[ID2STR_CF][to_le_bytes(id)]) ELSE None

\* An item of the iterator quads_for_pattern returns: Ok(quad) or Err
OkItem(q) == [ok |-> TRUE, quad |-> q]
ErrItem == [ok |-> FALSE, quad |-> Quad("", "", "", None)]

\* Decoder::decode_quad: every hashed term is looked up in id2str; a term
\* without an entry is an error.
decode_quad(d, e) ==
    LET hashed == {e.subject, e.predicate, e.object} \cup
                  (IF e.graph_name = ENCODED_DEFAULT_GRAPH THEN {} ELSE {e.graph_name})
        str(t) == get_str(d, t[2])[1]
    IN  IF \E t \in hashed : get_str(d, t[2]) = None
        THEN ErrItem
        ELSE OkItem(Quad(str(e.subject), str(e.predicate), str(e.object),
                         IF e.graph_name = ENCODED_DEFAULT_GRAPH
                         THEN None ELSE Some(str(e.graph_name))))

\* RocksDbStore::quads_for_pattern.  subject, predicate and object are None
\* or Some(string); graph_name is None, Some(None) or Some(Some(string)).
quads_for_pattern(d, subject, predicate, object, graph_name) ==
    LET s == IF subject = None THEN None ELSE Some(EncodedNamedNode(subject[1]))
        p == IF predicate = None THEN None ELSE Some(EncodedNamedNode(predicate[1]))
        o == IF object = None THEN None ELSE Some(EncodedNamedNode(object[1]))
        g == IF graph_name = None THEN None ELSE Some(EncodedGraphName(graph_name[1]))
        found == encoded_quads_for_pattern(d, s, p, o, g)
    IN  [i \in 1 .. Len(found) |-> decode_quad(d, found[i])]

----------------------------------------------------------------------------
(* The initial state: a store opened on a fresh path, no call running *)

\* A call of the session: its kind, its arguments and (history) what its
\* transaction held when the call returned: 0 for no operation, 1 for some,
\* 2 for more than MAX_TRANSACTION_SIZE.
Call(kind, quad, g) == [kind |-> kind, quad |-> quad, to_graph_name |-> g, held |-> 0]

Held(b) == IF b.len = 0 THEN 0 ELSE IF b.len > MAX_TRANSACTION_SIZE THEN 2 ELSE 1

NoCall == Call("none", None, None)

\* A pattern of quads_for_pattern; before the first read, the pattern that binds nothing
Pattern(s, p, o, g) == [subject |-> s, predicate |-> p, object |-> o, graph_name |-> g]
NoPattern == Pattern(None, None, None, None)

\* The pattern of encoded terms quads_for_pattern makes of the pattern pat
EncodedPatternOf(pat) ==
    Pattern(IF pat.subject = None THEN None ELSE Some(EncodedNamedNode(pat.subject[1])),
            IF pat.predicate = None THEN None ELSE Some(EncodedNamedNode(pat.predicate[1])),
            IF pat.object = None THEN None ELSE Some(EncodedNamedNode(pat.object[1])),
            IF pat.graph_name = None THEN None ELSE Some(EncodedGraphName(pat.graph_name[1])))

\* An iterator that is read item by item: phase is "none" (no such iterator),
\* "open" or "done" (next has returned None); rest is what its DBRawIterator
\* has still to give, up to the first key without the prefix; created is
\* (history) what the iterator would have yielded had it been collected at once.
Cursor(phase, rest, created) == [phase |-> phase, rest |-> rest, created |-> created]
NoCursor == Cursor("none", <<>>, <<>>)

\* No query runs, no host value is converted
NoQuery == UNCHANGED <<query, collected>>
NoTerm == UNCHANGED <<host, produced>>

\* The session reads nothing
NoRead == UNCHANGED <<pattern, yielded, stored, cursor>> /\ NoQuery /\ NoTerm

Init ==
    /\ db = StoreOpen(EmptyDB)
    /\ shadow = StoreOpen(EmptyDB)
    /\ pc = "idle"
    /\ call = NoCall
    /\ batch = WriteBatch_default
    /\ nOps = 0
    /\ nRead = 0
    /\ result = "none"
    /\ writes = 0
    /\ persisted = {}
    /\ fed = {}
    /\ pattern = NoPattern
    /\ yielded = <<>>
    /\ stored = {}
    /\ cursor = NoCursor
    /\ query = [phase |-> "none"]
    /\ collected = <<>>
    /\ host = [op |-> "none"]
    /\ produced = [ok |-> TRUE, term |-> [termType |-> "none"]]

\* A call starts: the histories of the previous call are forgotten.
StartCall(c) ==
    /\ call' = c
    /\ shadow' = db
    /\ nOps' = 0
    /\ nRead' = 0
    /\ fed' = {}

\* A call returns: its transaction, its parser and its counters are dropped.
EndCall(b, r, res) ==
    /\ call' = [call EXCEPT !.held = Held(b)]
    /\ db' = r.db
    /\ batch' = WriteBatch_default
    /\ writes' = writes + r.writes
    /\ persisted' = {}
    /\ result' = res
    /\ pc' = "idle"
    /\ nOps' = 0
    /\ nRead' = 0

----------------------------------------------------------------------------
(* RocksDbStore::insert and RocksDbStore::remove, called by the session *)

CallInsert(q, io) ==
    /\ pc = "idle"
    /\ StartCall(Call("insert", Some(q), None))
    /\ LET r == StoreInsert(db, q, TRUE, io)
       IN  /\ db' = r.db
           /\ writes' = r.writes
           /\ result' = IF r.ok THEN "Ok" ELSE "Err"
    /\ persisted' = {}
    /\ UNCHANGED <<pc, batch>>

CallRemove(q, io) ==
    /\ pc = "idle"
    /\ StartCall(Call("remove", Some(q), None))
    /\ LET r == StoreRemove(db, q, TRUE, io)
       IN  /\ db' = r.db
           /\ writes' = r.writes
           /\ result' = IF r.ok THEN "Ok" ELSE "Err"
    /\ persisted' = {}
    /\ UNCHANGED <<pc, batch>>

\* Every clone of the store is dropped, which closes the database, and the
\* session opens a store at the same path.
Reopen(io) ==
    /\ pc = "idle"
    /\ call.kind # "none"
    /\ StartCall(Call("open", None, None))
    /\ LET r == StoreReopen(db, io)
       IN  /\ db' = r.db
           /\ writes' = r.writes
           /\ result' = IF r.ok THEN "Ok" ELSE "Err"
    /\ persisted' = {}
    /\ UNCHANGED <<pc, batch>>

----------------------------------------------------------------------------
(* RocksDbStore::insert and RocksDbStore::remove, called by other threads *)
(* through clones of the store while a call of the session is running     *)

OtherInsert(q) ==
    /\ pc # "idle"
    /\ db' = StoreInsert(db, q, TRUE, TRUE).db
    /\ shadow' = StoreInsert(shadow, q, TRUE, TRUE).db
    /\ UNCHANGED <<pc, call, batch, nOps, nRead, result, writes, persisted, fed>>

OtherRemove(q) ==
    /\ pc # "idle"
    /\ db' = StoreRemove(db, q, TRUE, TRUE).db
    /\ shadow' = StoreRemove(shadow, q, TRUE, TRUE).db
    /\ fed' = {t \in fed : EncodedQuadOf(LoadedQuad(t, call.to_graph_name)) # EncodedQuadOf(q)}
    /\ UNCHANGED <<pc, call, batch, nOps, nRead, result, writes, persisted>>

----------------------------------------------------------------------------
(* RocksDbStore::transaction(f) *)

\* let mut transaction = self.handle()?.transaction(); then f starts.
TxBegin ==
    /\ pc = "idle"
    /\ StartCall(Call("transaction", None, None))
    /\ batch' = WriteBatch_default
    /\ result' = "none"
    /\ writes' = 0
    /\ persisted' = {}
    /\ pc' = "closure"
    /\ UNCHANGED db

\* The quad at the next input position is handed to the transaction.
Tag(b, i) == [b EXCEPT !.quads = @ \cup {i}]

\* A step of a running call that returned Ok.
Step(r) ==
    /\ db' = r.db
    /\ batch' = r.batch
    /\ writes' = writes + r.writes
    /\ persisted' = persisted \cup r.written

\* RocksDbTransaction::insert, called by the closure
TxInsert(q) ==
    /\ pc = "closure"
    /\ nOps < MaxTxOps
    /\ LET enc == encode_quad(batch, q)
       IN  Step(tx_insert_encoded(db, enc.batch, enc.quad, TRUE))
    /\ nOps' = nOps + 1
    /\ UNCHANGED <<shadow, pc, call, nRead, result, fed>>

\* RocksDbTransaction::remove, called by the closure
TxRemove(q) ==
    /\ pc = "closure"
    /\ nOps < MaxTxOps
    /\ Step(tx_remove_encoded(db, batch, EncodedQuadOf(q), TRUE))
    /\ nOps' = nOps + 1
    /\ UNCHANGED <<shadow, pc, call, nRead, result, fed>>

\* RocksDbTransaction::load_graph(reader, syntax, None, base_iri), called by
\* the closure: the parser hands the next triple to the transaction.
TxLoad(t) ==
    /\ pc = "closure"
    /\ nRead < MaxLoadLen
    /\ LET enc == encode_quad(Tag(batch, nRead + 1), LoadedQuad(t, call.to_graph_name))
       IN  Step(tx_insert_encoded(db, enc.batch, enc.quad, TRUE))
    /\ nRead' = nRead + 1
    /\ UNCHANGED <<shadow, pc, call, nOps, result, fed>>

\* The closure returns Err.
TxClosureErr ==
    /\ pc = "closure"
    /\ EndCall(batch, StoreTransaction(db, batch, FALSE, TRUE), "ClosureErr")
    /\ UNCHANGED <<shadow, fed>>

\* The closure returns Ok and the transaction is committed.
TxCommit(io) ==
    /\ pc = "closure"
    /\ LET r == StoreTransaction(db, batch, TRUE, io)
       IN  EndCall(batch, r, IF r.ok THEN "Ok" ELSE "CommitErr")
    /\ UNCHANGED <<shadow, fed>>

----------------------------------------------------------------------------
(* RocksDbStore::load_graph and RocksDbStore::load_dataset *)

\* let mut transaction = self.handle()?.auto_transaction(); then the parser starts.
\* For load_graph g is to_graph_name; for load_dataset it is the graph of the file's quads.
LoadBegin(kind, g) ==
    /\ pc = "idle"
    /\ kind = "load_dataset" => g # None
    /\ StartCall(Call(kind, None, g))
    /\ batch' = WriteBatch_default
    /\ result' = "none"
    /\ writes' = 0
    /\ persisted' = {}
    /\ pc' = "load"
    /\ UNCHANGED db

\* The parser hands the next triple to the auto transaction: encode, then
\* insert_encoded.  io is the outcome of the flush, if there is one.
LoadFeed(t, io) ==
    /\ pc = "load"
    /\ nRead < MaxLoadLen
    /\ LET enc == encode_quad(Tag(batch, nRead + 1), LoadedQuad(t, call.to_graph_name))
           r == auto_insert_encoded(db, enc.batch, enc.quad, io)
       IN  /\ io \/ r.writes > 0
           /\ IF r.ok
              THEN /\ Step(r)
                   /\ nRead' = nRead + 1
                   /\ fed' = fed \cup {t}
                   /\ UNCHANGED <<pc, call, result, nOps>>
              ELSE /\ EndCall(insert(enc.batch, enc.quad), r, "FlushErr")
                   /\ UNCHANGED fed
    /\ UNCHANGED shadow

\* The parser fails: the loader returns the error and the transaction is dropped.
LoadParseErr ==
    /\ pc = "load"
    /\ EndCall(batch, StoreLoad(db, batch, FALSE, TRUE), "ParseErr")
    /\ UNCHANGED <<shadow, fed>>

\* The parser reaches the end of the input: the loader returns Ok.
LoadEnd(io) ==
    /\ pc = "load"
    /\ LET r == StoreLoad(db, batch, TRUE, io)
       IN  EndCall(batch, r, IF r.ok THEN "Ok" ELSE "CommitErr")
    /\ UNCHANGED <<shadow, fed>>

----------------------------------------------------------------------------

\* insert and remove by the session, and by other threads while a call runs;
\* closing and opening the store again
StoreCalls ==
    \/ \E q \in QuadPool, io \in BOOLEAN : CallInsert(q, io) /\ NoRead
    \/ \E q \in QuadPool, io \in BOOLEAN : CallRemove(q, io) /\ NoRead
    \/ \E q \in OtherPool : OtherInsert(q) /\ NoRead
    \/ \E q \in OtherPool : OtherRemove(q) /\ NoRead
    \/ \E io \in BOOLEAN : Reopen(io) /\ NoRead

\* explicit transactions
TxCalls ==
    \/ TxBegin /\ NoRead
    \/ \E q \in QuadPool : TxInsert(q) /\ NoRead
    \/ \E q \in QuadPool : TxRemove(q) /\ NoRead
    \/ \E t \in TriplePool : TxLoad(t) /\ NoRead
    \/ TxClosureErr /\ NoRead
    \/ \E io \in BOOLEAN : TxCommit(io) /\ NoRead

\* bulk loads
LoadCalls ==
    \/ \E kind \in {"load_graph", "load_dataset"}, g \in GraphPool : LoadBegin(kind, g) /\ NoRead
    \/ \E t \in TriplePool, io \in BOOLEAN : LoadFeed(t, io) /\ NoRead
    \/ LoadParseErr /\ NoRead
    \/ \E io \in BOOLEAN : LoadEnd(io) /\ NoRead

Next == StoreCalls \/ TxCalls \/ LoadCalls

Spec == Init /\ [][Next]_vars

----------------------------------------------------------------------------
(* Reading the store: inserts and removes followed by quads_for_pattern *)

\* The quads the reading session inserts and removes, and the values it binds
\* the slots of a pattern to.
ReadPool ==
    {Quad("a", "p", "c", None), Quad("b", "p", "c", None), Quad("a", "p", "c", Some("g")),
     Quad("c", "p", "a", Some("a")), Quad("a", "g", "c", None)}
SubjectSlots == {None, Some("a"), Some("b"), Some("c")}
PredicateSlots == {None, Some("p"), Some("g")}
ObjectSlots == {None, Some("c"), Some("a")}
GraphSlots == {None, Some(None), Some(Some("g")), Some(Some("a"))}

\* The iterator of the last read is dropped.
DropIterator ==
    /\ pattern' = NoPattern
    /\ yielded' = <<>>
    /\ UNCHANGED cursor

\* RocksDbStore::insert, then the iterator of the last read is dropped
ReadInsert(q, io) ==
    /\ contains(db, EncodedQuadOf(q)) \/ Cardinality(DOMAIN db[SPOG_CF]) < MaxQuads
    /\ CallInsert(q, io)
    /\ DropIterator
    /\ stored' = IF result' = "Ok" THEN stored \cup {q} ELSE stored

\* RocksDbStore::remove, then the iterator of the last read is dropped
ReadRemove(q, io) ==
    /\ CallRemove(q, io)
    /\ DropIterator
    /\ stored' = IF result' = "Ok" THEN stored \ {q} ELSE stored

\* RocksDbStore::quads_for_pattern(subject, predicate, object, graph_name),
\* collected.  One read follows each insert or remove: a read changes nothing
\* a second read could see.
QuadsForPattern(subject, predicate, object, graph_name) ==
    /\ pc = "idle"
    /\ call.kind # "quads_for_pattern"
    /\ StartCall(Call("quads_for_pattern", None, None))
    /\ pattern' = Pattern(subject, predicate, object, graph_name)
    /\ yielded' = quads_for_pattern(db, subject, predicate, object, graph_name)
    /\ result' = "Ok"
    /\ writes' = 0
    /\ persisted' = {}
    /\ UNCHANGED <<db, pc, batch, stored, cursor>>

NextRead ==
    \/ \E q \in ReadPool, io \in BOOLEAN : ReadInsert(q, io) /\ NoQuery /\ NoTerm
    \/ \E q \in ReadPool, io \in BOOLEAN : ReadRemove(q, io) /\ NoQuery /\ NoTerm
    \/ \E s \in SubjectSlots, p \in PredicateSlots, o \in ObjectSlots, g \in GraphSlots :
          QuadsForPattern(s, p, o, g) /\ NoQuery /\ NoTerm

SpecRead == Init /\ [][NextRead]_vars

----------------------------------------------------------------------------
(* Reads item by item, while the store is written *)

\* The quads the session inserts and removes, and the triple it loads, while
\* an iterator is open
CursorPool ==
    {Quad("b", "p", "c", None), Quad("c", "p", "c", Some("g"))}
CursorTriples == {<<"a", "p", "c">>}

\* The writes leave the iterator alone.
KeepCursor == UNCHANGED <<pattern, yielded, stored, cursor>> /\ NoQuery /\ NoTerm

\* RocksDbStore::quads_for_pattern(subject, predicate, object, graph_name),
\* called by the session between two of its calls: the iterator is returned
\* and nothing is taken from it yet.  inner_quads
\* has made the DBRawIterator and has called seek; a DBRawIterator reads the
\* database as it is when the iterator is made.
OpenIterator(subject, predicate, object, graph_name) ==
    /\ pc = "idle"
    /\ cursor.phase # "open"
    /\ pattern' = Pattern(subject, predicate, object, graph_name)
    /\ LET e == EncodedPatternOf(pattern')
       IN  cursor' = Cursor("open",
                            encoded_quads_for_pattern(db, e.subject, e.predicate, e.object, e.graph_name),
                            quads_for_pattern(db, subject, predicate, object, graph_name))
    /\ yielded' = <<>>
    /\ UNCHANGED <<db, shadow, pc, call, batch, nOps, nRead, result, writes, persisted, fed, stored>>

\* next() of that iterator: DecodingIndexIterator::next gives the encoded quad
\* of the current key and moves on, and the closure of quads_for_pattern
\* decodes it with the strings the database holds now.
IteratorNext ==
    /\ cursor.phase = "open"
    /\ IF cursor.rest = <<>>
       THEN /\ cursor' = [cursor EXCEPT !.phase = "done"]
            /\ UNCHANGED yielded
       ELSE /\ cursor' = [cursor EXCEPT !.rest = Tail(cursor.rest)]
            /\ yielded' = Append(yielded, decode_quad(db, Head(cursor.rest)))
    /\ UNCHANGED <<db, shadow, pc, call, batch, nOps, nRead, result, writes, persisted, fed, stored, pattern>>

NextCursor ==
    \/ \E q \in CursorPool, io \in BOOLEAN :
          /\ contains(db, EncodedQuadOf(q)) \/ Cardinality(DOMAIN db[SPOG_CF]) < MaxQuads
          /\ CallInsert(q, io) /\ KeepCursor
    \/ \E q \in CursorPool, io \in BOOLEAN : CallRemove(q, io) /\ KeepCursor
    \/ cursor.phase = "open" /\ LoadBegin("load_graph", None) /\ KeepCursor
    \/ \E t \in CursorTriples, io \in BOOLEAN : LoadFeed(t, io) /\ KeepCursor
    \/ \E io \in BOOLEAN : LoadEnd(io) /\ KeepCursor
    \/ NoQuery /\ NoTerm /\ \E s \in {None, Some("b")} : OpenIterator(s, None, None, None)
    \/ IteratorNext /\ NoQuery /\ NoTerm

SpecCursor == Init /\ [][NextCursor]_vars

----------------------------------------------------------------------------
(* SPARQL SERVICE clauses and their handler (tests/service_test_cases.rs)  *)
(*                                                                         *)
(* The tests run queries whose WHERE group is one or two SERVICE clauses   *)
(* over a store loaded from b"", that is, an empty store.  The query       *)
(* evaluator is not part of the sources at hand: eval_service, join,       *)
(* order_by and exec follow the specification's section 4.8 and its        *)
(* examples E4 and E5.                                                     *)

\* A solution binds ?s, ?name and ?mbox, each to Some(value) or to None
Binding(s, name, mbox) == [s |-> s, name |-> name, mbox |-> mbox]
OkSolution(b) == [ok |-> TRUE, binding |-> b]
ErrSolution == [ok |-> FALSE, binding |-> Binding(None, None, None)]

\* do_pattern(triples, graph_pattern, options): the solutions of the pattern
\* { ?s foaf:name ?name } or { ?s foaf:mbox ?mbox } over the triples, in order
do_pattern(triples, graph_pattern) ==
    LET hits == SelectSeq(triples, LAMBDA t : t[2] = graph_pattern)
    IN  [i \in 1..Len(hits) |->
            OkSolution(IF graph_pattern = "name"
                       THEN Binding(Some(hits[i][1]), Some(hits[i][3]), None)
                       ELSE Binding(Some(hits[i][1]), None, Some(hits[i][3])))]

\* TwoServiceTest::handle
TwoServiceTest(named_node, graph_pattern) ==
    IF named_node = "service1"
    THEN [ok |-> TRUE,
          items |-> do_pattern(<< <<"bob", "name", "Bob">>, <<"alice", "name", "Alice">> >>, graph_pattern)]
    ELSE IF named_node = "service2"
    THEN [ok |-> TRUE,
          items |-> do_pattern(<< <<"bob", "mbox", "mailto:bob">>, <<"alice", "mbox", "mailto:alice">> >>,
                               graph_pattern)]
    ELSE [ok |-> FALSE, items |-> <<>>]

\* ServiceTest::handle of silent_service_empty_set_test and non_silent_service_test
ServiceTest(named_node, graph_pattern) == [ok |-> FALSE, items |-> <<>>]

\* A SERVICE clause of a query
Clause(silent, service, graph_pattern) == [silent |-> silent, service |-> service, graph_pattern |-> graph_pattern]

handle(handler, clause) ==
    IF handler = "TwoServiceTest"
    THEN TwoServiceTest(clause.service, clause.graph_pattern)
    ELSE ServiceTest(clause.service, clause.graph_pattern)

\* A failed SILENT clause stands for no solution at all
eval_service_silent_drops(handler, clause) ==
    LET r == handle(handler, clause)
    IN  IF r.ok THEN r.items ELSE IF clause.silent THEN <<>> ELSE <<ErrSolution>>

\* Every failed clause is treated as a SILENT one
eval_service_swallows(handler, clause) ==
    LET r == handle(handler, clause)
    IN  IF r.ok THEN r.items ELSE <<OkSolution(Binding(None, None, None))>>

\* The evaluation of SERVICE [SILENT] <service> { graph_pattern }
eval_service(handler, clause) ==
    LET r == handle(handler, clause)
    IN  IF r.ok THEN r.items
        ELSE IF clause.silent THEN <<OkSolution(Binding(None, None, None))>>
        ELSE <<ErrSolution>>

\* The join of two solution sequences: the merges of their compatible
\* solutions; an error of either side comes first
RECURSIVE join(_, _)
join(left, right) ==
    LET Failed(items) == \E i \in 1..Len(items) : ~items[i].ok
        Compatible(a, b) == \A v \in {"s", "name", "mbox"} : a[v] = None \/ b[v] = None \/ a[v] = b[v]
        Merge(a, b) == [v \in {"s", "name", "mbox"} |-> IF a[v] # None THEN a[v] ELSE b[v]]
    IN  IF Failed(left) \/ Failed(right) THEN <<ErrSolution>>
        ELSE IF left = <<>> THEN <<>>
        ELSE LET a == Head(left).binding
                 with == SelectSeq(right, LAMBDA r : Compatible(a, r.binding))
             IN  [i \in 1..Len(with) |-> OkSolution(Merge(a, with[i].binding))] \o join(Tail(left), right)

\* ORDER BY ?name: unbound first, then "Alice" before "Bob"; errors pass through
order_by(items) ==
    LET NameRank(item) ==
            IF ~item.ok THEN 0
            ELSE IF item.binding.name = None THEN 1
            ELSE IF item.binding.name = Some("Alice") THEN 2 ELSE 3
    IN  SelectSeq(items, LAMBDA x : NameRank(x) = 0) \o SelectSeq(items, LAMBDA x : NameRank(x) = 1)
            \o SelectSeq(items, LAMBDA x : NameRank(x) = 2) \o SelectSeq(items, LAMBDA x : NameRank(x) = 3)

\* prepare_query(query, options)?.exec()?, collected by query_store: the
\* group's clauses joined from the single empty solution, ordered by ?name,
\* projected to ?name and ?mbox
RECURSIVE eval_group(_, _, _)
eval_group(handler, clauses, from) ==
    IF clauses = <<>> THEN from
    ELSE eval_group(handler, Tail(clauses), join(from, eval_service(handler, Head(clauses))))

exec(handler, clauses) ==
    LET items == order_by(eval_group(handler, clauses, <<OkSolution(Binding(None, None, None))>>))
    IN  [i \in 1..Len(items) |->
            [ok |-> items[i].ok, binding |-> Binding(None, items[i].binding.name, items[i].binding.mbox)]]

\* The clauses of the queries, and the handlers the options carry
Clauses == {Clause(silent, service, pat) :
               silent \in BOOLEAN, service \in {"service1", "service2", "service3"}, pat \in {"name", "mbox"}}
Queries == UNION {[1..n -> Clauses] : n \in 1..MaxClauses}

\* do_query(b"", query, options with the handler): the store is empty, the
\* query is evaluated, its iterator returned.
DoQuery(handler, clauses) ==
    /\ query.phase = "none"
    /\ query' = [phase |-> "iterating", handler |-> handler, clauses |-> clauses, rest |-> exec(handler, clauses)]
    /\ collected' = <<>>
    /\ UNCHANGED <<db, shadow, pc, call, batch, nOps, nRead, result, writes, persisted, fed,
                   pattern, yielded, stored, cursor>>
    /\ NoTerm

\* results.into_values_iter().next(): the next item, or None at the end
IterNext ==
    /\ query.phase = "iterating"
    /\ IF query.rest = <<>>
       THEN /\ query' = [query EXCEPT !.phase = "done"]
            /\ UNCHANGED collected
       ELSE /\ query' = [query EXCEPT !.rest = Tail(query.rest)]
            /\ collected' = Append(collected, Head(query.rest))
    /\ UNCHANGED <<db, shadow, pc, call, batch, nOps, nRead, result, writes, persisted, fed,
                   pattern, yielded, stored, cursor>>
    /\ NoTerm

NextService ==
    \/ \E handler \in {"TwoServiceTest", "ServiceTest"}, clauses \in Queries : DoQuery(handler, clauses)
    \/ IterNext

SpecService == Init /\ [][NextService]_vars

----------------------------------------------------------------------------
(* The JavaScript bindings of the RDF model (js/src/model.rs)              *)
(*                                                                         *)
(* A string of the host is a sequence of pieces: its single characters    *)
(* where the characters matter (the identifiers of blank nodes), the whole *)
(* string as one piece elsewhere.  A u128 is the sequence of its           *)
(* hexadecimal digits without leading zeros (<<>> is 0), most significant  *)
(* first: it has at most 32 of them.                                       *)

U128_DIGITS == 32

\* char::to_digit(16): the value of a hexadecimal digit, -1 for None
to_digit(c) ==
    LET lower == <<"0", "1", "2", "3", "4", "5", "6", "7", "8", "9", "a", "b", "c", "d", "e", "f">>
        upper == <<"0", "1", "2", "3", "4", "5", "6", "7", "8", "9", "A", "B", "C", "D", "E", "F">>
    IN  IF \E i \in 1..16 : lower[i] = c THEN (CHOOSE i \in 1..16 : lower[i] = c) - 1
        ELSE IF \E i \in 1..16 : upper[i] = c THEN (CHOOSE i \in 1..16 : upper[i] = c) - 1
        ELSE -1

\* The digit loop that passes over what is no digit
RECURSIVE parse_digits_lenient(_, _)
parse_digits_lenient(digits, acc) ==
    IF digits = <<>> THEN [ok |-> TRUE, id |-> acc]
    ELSE LET x == to_digit(Head(digits))
         IN  IF x = -1 THEN parse_digits_lenient(Tail(digits), acc)
             ELSE IF acc = <<>> THEN parse_digits_lenient(Tail(digits), IF x = 0 THEN <<>> ELSE <<x>>)
             ELSE IF Len(acc) = U128_DIGITS THEN [ok |-> FALSE, id |-> <<>>]
             ELSE parse_digits_lenient(Tail(digits), Append(acc, x))

\* The digit loop of from_str_radix: result.checked_mul(16)?.checked_add(x)?
RECURSIVE parse_digits(_, _)
parse_digits(digits, acc) ==
    IF digits = <<>> THEN [ok |-> TRUE, id |-> acc]
    ELSE LET x == to_digit(Head(digits))
         IN  IF x = -1 THEN [ok |-> FALSE, id |-> <<>>]
             ELSE IF acc = <<>> THEN parse_digits(Tail(digits), IF x = 0 THEN <<>> ELSE <<x>>)
             ELSE IF Len(acc) = U128_DIGITS THEN [ok |-> FALSE, id |-> <<>>]
             ELSE parse_digits(Tail(digits), Append(acc, x))

\* u128::from_str_radix(src, 16): the empty string and a lone sign are
\* errors, a leading "+" is passed over, "-" is no digit of an unsigned type
from_str_radix(src) ==
    IF src = <<>> THEN [ok |-> FALSE, id |-> <<>>]
    ELSE IF Len(src) = 1 /\ Head(src) \in {"+", "-"} THEN [ok |-> FALSE, id |-> <<>>]
    ELSE IF Head(src) = "+" THEN parse_digits(Tail(src), <<>>)
    ELSE parse_digits(src, <<>>)

\* The terms of the bindings (JsTerm) and the result of a fallible operation
JsNamedNode(iri) == [termType |-> "NamedNode", value |-> iri]
JsBlankNode(id) == [termType |-> "BlankNode", value |-> id]
JsLiteral(value, language, datatype) ==
    [termType |-> "Literal", value |-> value, language |-> language, datatype |-> datatype]
JsDefaultGraph == [termType |-> "DefaultGraph"]
JsOk(t) == [ok |-> TRUE, term |-> t]
JsErr == [ok |-> FALSE, term |-> [termType |-> "none"]]

\* JsDataFactory::blank_node(value); fresh is the id BlankNode::default() draws
blank_node(value, fresh) ==
    IF value # None
    THEN LET r == from_str_radix(value[1])
         IN  IF r.ok THEN JsOk(JsBlankNode(r.id)) ELSE JsErr
    ELSE JsOk(JsBlankNode(fresh))

\* A value of the host: undefined, or an object whose fields termType, value
\* and language hold Some(string) or, for anything that is no string, None,
\* and whose field datatype holds a value of the host
Undefined == [kind |-> "undefined"]
HostObject(termType, value, language, datatype) ==
    [kind |-> "object", termType |-> termType, value |-> value, language |-> language, datatype |-> datatype]

XSD_STRING == <<"http://www.w3.org/2001/XMLSchema#string">>
RDF_LANG_STRING == <<"http://www.w3.org/1999/02/22-rdf-syntax-ns#langString">>

\* NamedNodeBuf::parse accepts the IRIs, Literal::new_language_tagged_literal
\* the language tags
Iris == {<<"http://example.com/p">>, <<"http://example.com/dt">>, XSD_STRING, RDF_LANG_STRING}
LanguageTags == {<<"en">>}

\* FromJsConverter::to_term(value)
RECURSIVE to_term(_)
to_term(value) ==
    IF value.kind = "undefined" THEN JsErr
    ELSE IF value.termType = None THEN JsErr
    ELSE IF value.termType = Some("NamedNode")
    THEN IF value.value = None THEN JsErr
         ELSE IF value.value[1] \in Iris THEN JsOk(JsNamedNode(value.value[1])) ELSE JsErr
    ELSE IF value.termType = Some("BlankNode")
    THEN IF value.value = None THEN JsErr
         ELSE LET r == from_str_radix(value.value[1])
              IN  IF r.ok THEN JsOk(JsBlankNode(r.id)) ELSE JsErr
    ELSE IF value.termType = Some("Literal")
    THEN LET datatype == to_term(value.datatype)
         IN  IF ~datatype.ok THEN JsErr
             ELSE IF datatype.term.termType # "NamedNode" THEN JsErr
             ELSE IF value.value = None THEN JsErr
             ELSE IF datatype.term.value = XSD_STRING
             THEN JsOk(JsLiteral(value.value[1], None, XSD_STRING))
             ELSE IF datatype.term.value = RDF_LANG_STRING
             THEN IF value.language = None THEN JsErr
                  ELSE IF value.language[1] \in LanguageTags
                  THEN JsOk(JsLiteral(value.value[1], value.language, RDF_LANG_STRING))
                  ELSE JsErr
             ELSE JsOk(JsLiteral(value.value[1], None, datatype.term.value))
    ELSE IF value.termType = Some("DefaultGraph") THEN JsOk(JsDefaultGraph)
    ELSE JsErr

\* FromJsConverter::to_quad(value): the four terms in turn, the first error returned
to_quad(value) ==
    LET subject == IF value.kind = "undefined" THEN JsErr ELSE to_term(value.subject)
        predicate == to_term(value.predicate)
        object == to_term(value.object)
        graph == to_term(value.graph)
    IN  IF ~subject.ok THEN JsErr
        ELSE IF ~predicate.ok THEN JsErr
        ELSE IF ~object.ok THEN JsErr
        ELSE IF ~graph.ok THEN JsErr
        ELSE JsOk([termType |-> "Quad", subject |-> subject.term, predicate |-> predicate.term,
                   object |-> object.term, graph |-> graph.term])

\* JsDataFactory::named_node(value)
named_node(value) == IF value \in Iris THEN JsOk(JsNamedNode(value)) ELSE JsErr

\* JsDataFactory::literal(value, language_or_datatype); the second argument
\* is undefined, a string of the host ([kind |-> "string"]), or an object
literal(value, language_or_datatype) ==
    LET v == IF value = None THEN <<>> ELSE value[1]
    IN  IF language_or_datatype.kind = "undefined" THEN JsOk(JsLiteral(v, None, XSD_STRING))
        ELSE IF language_or_datatype.kind = "string"
        THEN IF language_or_datatype.value \in LanguageTags
             THEN JsOk(JsLiteral(v, Some(language_or_datatype.value), RDF_LANG_STRING))
             ELSE JsErr
        ELSE LET datatype == to_term(language_or_datatype)
             IN  IF ~datatype.ok THEN JsErr
                 ELSE IF datatype.term.termType = "NamedNode"
                 THEN JsOk(JsLiteral(v, None, datatype.term.value))
                 ELSE JsErr

\* What the host reads from a term of the bindings: the getters termType,
\* value, language and datatype of JsNamedNode, JsBlankNode, JsLiteral and
\* JsDefaultGraph.  The value of a blank node is its id in hexadecimal, the
\* language of a literal without one the empty string.
RECURSIVE getters(_)
getters(t) ==
    LET hex == <<"0", "1", "2", "3", "4", "5", "6", "7", "8", "9", "a", "b", "c", "d", "e", "f">>
        as_str(id) == IF id = <<>> THEN <<"0">> ELSE [i \in 1..Len(id) |-> hex[id[i] + 1]]
    IN  IF t.termType = "NamedNode" THEN HostObject(Some("NamedNode"), Some(t.value), None, Undefined)
        ELSE IF t.termType = "BlankNode" THEN HostObject(Some("BlankNode"), Some(as_str(t.value)), None, Undefined)
        ELSE IF t.termType = "Literal"
        THEN HostObject(Some("Literal"), Some(t.value),
                        Some(IF t.language = None THEN <<>> ELSE t.language[1]),
                        getters(JsNamedNode(t.datatype)))
        ELSE HostObject(Some("DefaultGraph"), Some(<<>>), None, Undefined)

\* impl TryFrom<JsTerm> for NamedNodeBuf, for NamedOrBlankNode and for Term
try_from(target, value) ==
    IF target = "NamedNodeBuf"
    THEN IF value.termType = "NamedNode" THEN JsOk(value) ELSE JsErr
    ELSE IF target = "NamedOrBlankNode"
    THEN IF value.termType \in {"NamedNode", "BlankNode"} THEN JsOk(value) ELSE JsErr
    ELSE IF value.termType \in {"NamedNode", "BlankNode", "Literal"} THEN JsOk(value) ELSE JsErr

\* The graph of a quad may be any term
Quad_try_from_any_graph(quad) ==
    LET subject == try_from("NamedOrBlankNode", quad.subject)
        predicate == try_from("NamedNodeBuf", quad.predicate)
        object == try_from("Term", quad.object)
    IN  IF ~subject.ok THEN JsErr
        ELSE IF ~predicate.ok THEN JsErr
        ELSE IF ~object.ok THEN JsErr
        ELSE JsOk([subject |-> subject.term, predicate |-> predicate.term, object |-> object.term,
                   graph_name |-> IF quad.graph.termType = "DefaultGraph" THEN None ELSE Some(quad.graph)])

\* impl TryFrom<JsQuad> for Quad
Quad_try_from(quad) ==
    LET subject == try_from("NamedOrBlankNode", quad.subject)
        predicate == try_from("NamedNodeBuf", quad.predicate)
        object == try_from("Term", quad.object)
    IN  IF ~subject.ok THEN JsErr
        ELSE IF ~predicate.ok THEN JsErr
        ELSE IF ~object.ok THEN JsErr
        ELSE IF quad.graph.termType = "Literal" THEN JsErr
        ELSE JsOk([subject |-> subject.term, predicate |-> predicate.term, object |-> object.term,
                   graph_name |-> IF quad.graph.termType = "DefaultGraph" THEN None ELSE Some(quad.graph)])

\* The identifiers the host hands over: the short strings over a few
\* characters, strings with a minus sign, and strings of 32 and 33 digits
IdPool ==
    LET Rep(c, n) == [i \in 1..n |-> c]
    IN  UNION {[1..n -> {"0", "f", "F", "g", "+"}] : n \in 0..MaxIdLen}
            \cup {<<"-">>, <<"-", "f">>, <<"1", "-">>, Rep("f", U128_DIGITS), Rep("f", U128_DIGITS + 1), <<"0">> \o Rep("f", U128_DIGITS),
                  <<"1">> \o Rep("0", U128_DIGITS), <<"+">> \o Rep("f", U128_DIGITS)}

\* The host's terms: blank nodes of the identifiers and of a value that is
\* no string, named nodes, literals, the default graph, and values that are
\* no term
HostTerms(ids) ==
    LET NamedNode(iri) == HostObject(Some("NamedNode"), Some(iri), None, Undefined)
        Literal(value, language, datatype) == HostObject(Some("Literal"), value, language, datatype)
    IN  {HostObject(Some("BlankNode"), Some(id), None, Undefined) : id \in ids}
            \cup {HostObject(Some("BlankNode"), None, None, Undefined),
                  NamedNode(<<"http://example.com/p">>), NamedNode(<<"not an iri">>),
                  NamedNode(<<"http://example.com/dt">>), NamedNode(XSD_STRING), NamedNode(RDF_LANG_STRING),
                  Literal(Some(<<"x">>), None, NamedNode(XSD_STRING)),
                  Literal(Some(<<"x">>), Some(<<"en">>), NamedNode(RDF_LANG_STRING)),
                  Literal(Some(<<"x">>), None, NamedNode(RDF_LANG_STRING)),
                  Literal(Some(<<"x">>), None, NamedNode(<<"http://example.com/dt">>)),
                  Literal(Some(<<"x">>), None, HostObject(Some("BlankNode"), Some(<<"f">>), None, Undefined)),
                  Literal(None, None, NamedNode(XSD_STRING)),
                  HostObject(Some("DefaultGraph"), None, None, Undefined),
                  HostObject(Some("Variable"), Some(<<"x">>), None, Undefined),
                  HostObject(None, None, None, Undefined),
                  Undefined}

\* The host's quads: one of the terms in one position, terms the conversion
\* accepts in the others
HostQuads(terms) ==
    LET HostQuad(subject, predicate, object, graph) ==
            [kind |-> "object", subject |-> subject, predicate |-> predicate, object |-> object, graph |-> graph]
        s == HostObject(Some("NamedNode"), Some(<<"http://example.com/p">>), None, Undefined)
        g == HostObject(Some("DefaultGraph"), None, None, Undefined)
    IN  {HostQuad(t, s, s, g) : t \in terms} \cup {HostQuad(s, t, s, g) : t \in terms}
            \cup {HostQuad(s, s, t, g) : t \in terms} \cup {HostQuad(s, s, s, t) : t \in terms}

\* A call of the DataFactory changes nothing but what it returns
Returns(op, arg, r) ==
    /\ host' = [op |-> op, arg |-> arg]
    /\ produced' = r
    /\ UNCHANGED <<db, shadow, pc, call, batch, nOps, nRead, result, writes, persisted, fed,
                   pattern, yielded, stored, cursor>>

\* DataFactory.blankNode(value)
BlankNodeCall(value, fresh) == Returns("blankNode", value, blank_node(value, fresh))

\* DataFactory.fromTerm(original): JsDataFactory::convert_term
ConvertTerm(original) == Returns("fromTerm", original, to_term(original))

\* DataFactory.fromQuad(original): JsDataFactory::convert_quad
ConvertQuad(original) == Returns("fromQuad", original, to_quad(original))

NextJs ==
    \/ NoQuery /\ \E value \in {None} \cup {Some(id) : id \in IdPool}, fresh \in {<<1>>, <<10, 15>>} :
                      BlankNodeCall(value, fresh)
    \/ NoQuery /\ \E original \in HostTerms(IdPool) : ConvertTerm(original)
    \/ NoQuery /\ \E original \in HostQuads(HostTerms(IdPool)) \cup {Undefined} : ConvertQuad(original)
    \* DataFactory.namedNode(value)
    \/ NoQuery /\ \E value \in {<<"http://example.com/p">>, XSD_STRING, <<"not an iri">>} :
                      Returns("namedNode", value, named_node(value))
    \* DataFactory.literal(value, languageOrDatatype)
    \/ NoQuery /\ \E value \in {None, Some(<<"x">>)},
                         language_or_datatype \in
                             {[kind |-> "string", value |-> l] : l \in {<<"en">>, <<>>, <<"not a tag">>}}
                                 \cup HostTerms({<<"f">>}) :
                      Returns("literal", <<value, language_or_datatype>>, literal(value, language_or_datatype))
    \* DataFactory.defaultGraph()
    \/ NoQuery /\ Returns("defaultGraph", None, JsOk(JsDefaultGraph))
    \* DataFactory.fromTerm(t) of the term t the last factory operation returned
    \/ /\ NoQuery
       /\ host.op \in {"namedNode", "blankNode", "literal", "defaultGraph"}
       /\ produced.ok
       /\ Returns("roundTrip", produced.term, to_term(getters(produced.term)))
    \* Quad::try_from(quad) of a quad of the bindings
    \/ NoQuery /\ \E subject \in {1, 2, 3, 4}, predicate \in {1, 2, 3, 4}, object \in {1, 2, 3, 4},
                         graph \in {1, 2, 3, 4} :
                      LET terms == <<JsNamedNode(<<"http://example.com/p">>), JsBlankNode(<<15>>),
                                     JsLiteral(<<"x">>, None, XSD_STRING), JsDefaultGraph>>
                          quad == [termType |-> "Quad", subject |-> terms[subject], predicate |-> terms[predicate],
                                   object |-> terms[object], graph |-> terms[graph]]
                      IN  Returns("Quad::try_from", quad, Quad_try_from(quad))

SpecJs == Init /\ [][NextJs]_vars

----------------------------------------------------------------------------
(* Properties *)

\* The quads a scan of any of the six indexes of d yields, and the quads the
\* calls of the model can write
QuadsOf(d) ==
    UNION {{QuadIn(cf, k) : k \in DOMAIN d[cf]} : cf \in IndexCFs} \cup EncodedPool

InAllSix(d, e) == \A cf \in IndexCFs : HasKey(d, cf, KeyIn(cf, e))
InNoneOfSix(d, e) == \A cf \in IndexCFs : ~HasKey(d, cf, KeyIn(cf, e))

\* C1: whenever no call of the session is running, that is after any sequence
\* of committed inserts, removes, transactions and loads, every quad is present
\* in all six index column families or in none of them, and contains(q)
\* answers true exactly when q is present in all six.
C1_IndexCoherence ==
    pc = "idle" =>
        \A e \in QuadsOf(db) :
            /\ InAllSix(db, e) \/ InNoneOfSix(db, e)
            /\ contains(db, e) <=> InAllSix(db, e)

\* A remove has taken a quad out of a store that still holds another one.
C1_Witness ==
    /\ pc = "idle"
    /\ call.kind = "remove"
    /\ result = "Ok"
    /\ contains(shadow, EncodedQuadOf(call.quad[1]))
    /\ InNoneOfSix(db, EncodedQuadOf(call.quad[1]))
    /\ \E e \in EncodedPool : InAllSix(db, e)

\* C2: when the closure of transaction(f) returns Err, the call returns that
\* error without calling DB::write, and the database is what it would be had
\* the call never been made, whatever the closure had buffered.
C2_ClosureErrRollsBack ==
    (call.kind = "transaction" /\ result = "ClosureErr") =>
        /\ pc = "idle"
        /\ db = shadow
        /\ writes = 0

\* A closure failed after it had buffered more than MAX_TRANSACTION_SIZE operations.
C2_Witness ==
    /\ call.kind = "transaction"
    /\ result = "ClosureErr"
    /\ call.held = 2

\* C3: while the closure of an explicit transaction runs nothing of it reaches
\* the database, however many operations it has buffered; when it returns Ok
\* and the commit succeeds, everything it buffered is written by one DB::write.
C3_ExplicitNeverFlushes ==
    /\ [](pc = "closure" => (db = shadow /\ writes = 0))
    /\ [][(pc = "closure" /\ result' = "Ok") =>
            (db' = DB_write(db, batch) /\ writes' = 1)]_vars

\* A transaction of more than MAX_TRANSACTION_SIZE operations was committed by one write.
C3_Witness ==
    /\ call.kind = "transaction"
    /\ result = "Ok"
    /\ call.held = 2
    /\ writes = 1
    /\ db # shadow

\* C4: when the DB::write of the commit of a transaction fails, the call
\* returns the error and the database holds none of the transaction's writes.
C4_FailedCommitWritesNothing ==
    (call.kind = "transaction" /\ result = "CommitErr") =>
        /\ pc = "idle"
        /\ db = shadow
        /\ writes = 1

\* The commit of a transaction that held operations failed.
C4_Witness ==
    /\ call.kind = "transaction"
    /\ result = "CommitErr"
    /\ call.held > 0

\* What a reader holding the clone s finds in the index cf for the quad e
ReaderSees(s, d, cf, e) == HasKey(StoreDb(s, d), cf, KeyIn(cf, e))

\* C5: at every moment, also while a transaction or a bulk load of the
\* session is running and between the flushes of a load, a reader on any clone
\* finds each quad in all six indexes or in none.
C5_ReadersSeeWholeQuads ==
    \A s \in Clones : \A e \in QuadsOf(db) :
        \/ \A cf \in IndexCFs : ReaderSees(s, db, cf, e)
        \/ \A cf \in IndexCFs : ~ReaderSees(s, db, cf, e)

\* A load has flushed once and buffers again: a reader finds a flushed quad.
C5_Witness ==
    /\ pc = "load"
    /\ writes = 1
    /\ batch.len > 0
    /\ \E e \in EncodedPool : \A cf \in IndexCFs : ReaderSees("clone", db, cf, e)

\* The database view holds every operation of the batch b and, in every cell
\* b does not touch, what before held.
Reflects(view, b, before) ==
    \A cf \in COLUMN_FAMILIES :
        /\ \A c \in DOMAIN b.ops :
              c[1] = cf =>
                 IF b.ops[c].kind = "put"
                 THEN c[2] \in DOMAIN view[cf] /\ view[cf][c[2]] = b.ops[c].value
                 ELSE c[2] \notin DOMAIN view[cf]
        /\ \A k \in (DOMAIN view[cf]) \cup (DOMAIN before[cf]) :
              <<cf, k>> \notin DOMAIN b.ops =>
                 /\ k \in DOMAIN view[cf]
                 /\ k \in DOMAIN before[cf]
                 /\ view[cf][k] = before[cf][k]

\* C6: once a commit has returned Ok, a read through any clone of the store
\* finds the effects of that commit and of every commit before: what the
\* transaction or load wrote, an inserted quad, the absence of a removed one.
C6_ReadYourWrites ==
    [][\A s \in Clones :
          /\ (pc \in {"closure", "load"} /\ pc' = "idle" /\ result' = "Ok") =>
                Reflects(StoreDb(s, db'), batch, db)
          /\ (pc = "idle" /\ pc' = "idle" /\ result' = "Ok" /\ call'.kind = "insert") =>
                /\ contains(StoreDb(s, db'), EncodedQuadOf(call'.quad[1]))
                /\ \A e \in QuadsOf(db) :
                      contains(db, e) => contains(StoreDb(s, db'), e)
          /\ (pc = "idle" /\ pc' = "idle" /\ result' = "Ok" /\ call'.kind = "remove") =>
                /\ ~contains(StoreDb(s, db'), EncodedQuadOf(call'.quad[1]))
                /\ \A e \in QuadsOf(db) \ {EncodedQuadOf(call'.quad[1])} :
                      contains(db, e) => contains(StoreDb(s, db'), e)
      ]_vars

\* A committed transaction's quad is read through the other clone.
C6_Witness ==
    /\ call.kind = "transaction"
    /\ result = "Ok"
    /\ call.held > 0
    /\ \E e \in EncodedPool : contains(StoreDb("clone", db), e) /\ ~contains(shadow, e)

IsPrefix(S) == S = 1 .. Cardinality(S)

\* C7: during a bulk load the quads that reached the database are a prefix of
\* the input, the quads still buffered are the rest of what was read and none
\* of them is in the database by this load; a failure of the parser or of a
\* write ends the call without writing anything more.
C7_FailedLoadKeepsPrefix ==
    /\ [](pc = "load" =>
            /\ IsPrefix(persisted)
            /\ batch.quads \cap persisted = {}
            /\ batch.quads \cup persisted = 1 .. nRead
            /\ (persisted # {}) <=> (writes > 0))
    /\ [][(pc = "load" /\ result' \in {"ParseErr", "FlushErr", "CommitErr"}) =>
            db' = db]_vars

\* A load failed in the parser after one flush, with quads still buffered.
C7_Witness ==
    /\ call.kind \in {"load_graph", "load_dataset"}
    /\ result = "ParseErr"
    /\ writes = 1
    /\ call.held = 1

\* C8: when load_graph returns Ok, every triple the parser produced is in the
\* store, in the target graph or in the default graph when none was given
\* (unless another thread removed it meanwhile).
C8_LoadGraphStoresAll ==
    (call.kind = "load_graph" /\ result = "Ok") =>
        \A t \in fed :
            contains(db, EncodedQuadOf(LoadedQuad(t, call.to_graph_name)))

\* A load_graph that flushed once and committed the rest has returned Ok.
C8_Witness ==
    /\ call.kind = "load_graph"
    /\ result = "Ok"
    /\ writes = 2
    /\ call.held = 1
    /\ fed # {}

\* The hashed terms of the keys of the six indexes of d
HashedTerms(d) ==
    {t \in UNION {{TermAt(k, i) : i \in 1 .. 4} : k \in UNION {DOMAIN d[cf] : cf \in IndexCFs}} :
        t[1] = TYPE_NAMED_NODE_ID}

Collides(d, q) ==
    \E s \in {q.subject, q.predicate, q.object} :
        /\ HasKey(d, ID2STR_CF, to_le_bytes(StrHash(s)))
        /\ d[ID2STR_CF][to_le_bytes(StrHash(s))] # s

\* C10: an insert of a term whose hash is already in id2str with a different
\* string returns a fatal error and leaves the store as it was.
C10_CollisionIsFatal ==
    [][(pc = "idle" /\ pc' = "idle" /\ call'.kind = "insert" /\ Collides(db, call'.quad[1])) =>
            (result' = "Err" /\ db' = db)]_vars

\* C11: no step of any call (insert, remove, transaction, load, opening the
\* store again) takes a key out of id2str; no batch ever holds a delete of
\* id2str, and a remove leaves id2str exactly as it was.
C11_DictionaryNeverShrinks ==
    /\ [](\A c \in DOMAIN batch.ops : c[1] = ID2STR_CF => batch.ops[c].kind = "put")
    /\ [][/\ \A k \in DOMAIN db[ID2STR_CF] : k \in DOMAIN db'[ID2STR_CF]
          /\ (pc = "idle" /\ pc' = "idle" /\ call'.kind = "remove") =>
                db'[ID2STR_CF] = db[ID2STR_CF]
       ]_vars

\* A remove has taken out the last quad; the strings of its terms are still in id2str.
C11_Witness ==
    /\ call.kind = "remove"
    /\ result = "Ok"
    /\ contains(shadow, EncodedQuadOf(call.quad[1]))
    /\ \A e \in EncodedPool : InNoneOfSix(db, e)
    /\ \A x \in {call.quad[1].subject, call.quad[1].predicate, call.quad[1].object} :
          HasKey(db, ID2STR_CF, to_le_bytes(StrHash(x)))

----------------------------------------------------------------------------
(* Properties of reads *)

Range(f) == {f[i] : i \in DOMAIN f}

\* The pattern pat binds every slot it binds to the value the quad q has there.
Matches(pat, q) ==
    /\ pat.subject \in {None, Some(q.subject)}
    /\ pat.predicate \in {None, Some(q.predicate)}
    /\ pat.object \in {None, Some(q.object)}
    /\ pat.graph_name \in {None, Some(q.graph_name)}

\* The same for a pattern of encoded terms and an encoded quad
MatchesEncoded(pat, e) ==
    /\ pat.subject \in {None, Some(e.subject)}
    /\ pat.predicate \in {None, Some(e.predicate)}
    /\ pat.object \in {None, Some(e.object)}
    /\ pat.graph_name \in {None, Some(e.graph_name)}

\* The patterns of encoded terms made of the terms of the quads of d
EncodedPatterns(d) ==
    LET E == QuadsOf(d)
    IN  {Pattern(s, p, o, g) :
            s \in {None} \cup {Some(e.subject) : e \in E},
            p \in {None} \cup {Some(e.predicate) : e \in E},
            o \in {None} \cup {Some(e.object) : e \in E},
            g \in {None} \cup {Some(e.graph_name) : e \in E}}

\* What encoded_quads_for_pattern returns for a pattern of encoded terms
EncodedRead(d, pat) ==
    encoded_quads_for_pattern(d, pat.subject, pat.predicate, pat.object, pat.graph_name)

\* Before decoding, reads are complete: for each of the sixteen sets of bound
\* slots, every encoded quad of the store is among the quads
\* encoded_quads_for_pattern returns for a pattern it matches.
EncodedReadsComplete ==
    \A pat \in EncodedPatterns(db) : \A e \in QuadsOf(db) :
        (contains(db, e) /\ MatchesEncoded(pat, e)) => e \in Range(EncodedRead(db, pat))

\* C12: for every quad Q the session has stored and every set B of slots, the
\* read whose pattern has Q's values in the slots of B and nothing in the
\* others yields Q.
C12_PatternYieldsStored ==
    call.kind = "quads_for_pattern" =>
        \A Q \in stored : Matches(pattern, Q) => OkItem(Q) \in Range(yielded)

\* Before decoding, reads are sound: every encoded quad
\* encoded_quads_for_pattern returns is in the store and has the pattern's
\* terms in the bound slots.
EncodedReadsSound ==
    \A pat \in EncodedPatterns(db) : \A e \in Range(EncodedRead(db, pat)) :
        contains(db, e) /\ InAllSix(db, e) /\ MatchesEncoded(pat, e)

\* C13: every item a read yields is a quad that is in the store at the time
\* of the read: one the session has inserted and not removed since.
C13_YieldsOnlyStored ==
    call.kind = "quads_for_pattern" =>
        \A item \in Range(yielded) : item.ok /\ item.quad \in stored

\* The graph slot up to the hash of the graph's name: with Some(None) only
\* quads of the default graph are yielded, with Some(Some(n)) only quads of a
\* named graph whose name has the hash of n.
GraphSlotUpToHash ==
    call.kind = "quads_for_pattern" =>
        \A item \in Range(yielded) :
            /\ item.ok
            /\ pattern.graph_name = Some(None) => item.quad.graph_name = None
            /\ (pattern.graph_name # None /\ pattern.graph_name # Some(None)) =>
                  /\ item.quad.graph_name # None
                  /\ StrHash(item.quad.graph_name[1]) = StrHash(pattern.graph_name[1][1])

\* C14: the graph slot has three states.  With None the stored quads of every
\* graph, the default graph included, that have the pattern's values in the
\* other slots are yielded; with Some(None) only quads of the default graph
\* are yielded; with Some(Some(n)) only quads whose graph is n are yielded.
C14_GraphSlotThreeState ==
    call.kind = "quads_for_pattern" =>
        /\ pattern.graph_name = None =>
              \A Q \in stored : Matches(pattern, Q) => OkItem(Q) \in Range(yielded)
        /\ pattern.graph_name = Some(None) =>
              \A item \in Range(yielded) : item.ok /\ item.quad.graph_name = None
        /\ (pattern.graph_name # None /\ pattern.graph_name # Some(None)) =>
              \A item \in Range(yielded) :
                  item.ok /\ item.quad.graph_name = pattern.graph_name[1]

\* The number of times the sequence f holds x
Count(f, x) == Cardinality({i \in DOMAIN f : f[i] = x})

\* Inserting the quad the last insert has just stored changes nothing, and no
\* read yields an item twice.
InsertTwiceIsOnce ==
    /\ [](call.kind = "quads_for_pattern" => \A item \in Range(yielded) : Count(yielded, item) = 1)
    /\ [][(call.kind = "insert" /\ result = "Ok" /\ call'.kind = "insert" /\ result' = "Ok"
            /\ call'.quad = call.quad) => db' = db]_vars

\* C15: an insert of a quad that is in the store (the session has inserted it
\* and not removed it since) leaves the database as it was, and every read
\* whose pattern a stored quad matches yields that quad exactly once.
C15_InsertIsIdempotent ==
    /\ [](call.kind = "quads_for_pattern" =>
            \A Q \in stored : Matches(pattern, Q) => Count(yielded, OkItem(Q)) = 1)
    /\ [][(call'.kind = "insert" /\ result' = "Ok" /\ call'.quad[1] \in stored) => db' = db]_vars

\* The step is a remove of the session that returned Ok.
RemoveReturnedOk == pc = "idle" /\ pc' = "idle" /\ call'.kind = "remove" /\ result' = "Ok"

\* A remove takes the keys of its encoded quad out of all six indexes and
\* leaves every other key, and id2str, as they were; when the encoded quad is
\* not in the store the database is left as it was.
RemoveFrameEncoded ==
    [][RemoveReturnedOk =>
          LET e == EncodedQuadOf(call'.quad[1])
          IN  /\ InNoneOfSix(db', e)
              /\ \A cf \in IndexCFs :
                    DOMAIN db'[cf] = (DOMAIN db[cf]) \ {KeyIn(cf, e)}
              /\ db'[ID2STR_CF] = db[ID2STR_CF]
              /\ ~contains(db, e) => db' = db
      ]_vars

\* C16: after remove(q) has returned Ok contains(q) is false and q is in none
\* of the six indexes, contains answers for every other quad what it answered
\* before, and when q was not in the store the database is left as it was.
C16_RemoveFrame ==
    [][RemoveReturnedOk =>
          LET q == call'.quad[1]
          IN  /\ ~contains(db', EncodedQuadOf(q))
              /\ InNoneOfSix(db', EncodedQuadOf(q))
              /\ \A other \in ReadPool \ {q} :
                    contains(db', EncodedQuadOf(other)) <=> contains(db, EncodedQuadOf(other))
              /\ ~contains(db, EncodedQuadOf(q)) => db' = db
      ]_vars

----------------------------------------------------------------------------
(* Properties of SERVICE clauses *)

\* The clause fails: its handler returns an error for it
Fails(handler, clause) == ~handle(handler, clause).ok

\* All the items of the query's iterator, those taken and those to come
AllItems == collected \o query.rest

\* C18: when the handler returns an error for a SERVICE SILENT clause the
\* query does not fail and the clause contributes exactly one empty
\* solution: a query that is only that clause, run over the empty store,
\* returns exactly one solution, the empty one, and a query of that clause
\* and further ones returns what the further clauses alone return.
C18_SilentFailureIsOneEmptySolution ==
    (query.phase # "none" /\ query.clauses[1].silent /\ Fails(query.handler, query.clauses[1]))
        => /\ Len(query.clauses) = 1 =>
                /\ AllItems = <<OkSolution(Binding(None, None, None))>>
                /\ query.phase = "done" => collected = <<OkSolution(Binding(None, None, None))>>
           /\ Len(query.clauses) > 1 => AllItems = exec(query.handler, Tail(query.clauses))

C18_Witness ==
    /\ query.phase = "done"
    /\ query.handler = "ServiceTest"
    /\ query.clauses = <<Clause(TRUE, "service1", "name")>>
    /\ Len(collected) = 1

\* C19: when the handler returns an error for a SERVICE clause that is not
\* SILENT, the first item the query's iterator yields is an error and the
\* iterator yields no solution at all.
C19_FailurePropagates ==
    (query.phase # "none" /\ Len(query.clauses) = 1
        /\ ~query.clauses[1].silent /\ Fails(query.handler, query.clauses[1]))
        => /\ AllItems # <<>>
           /\ ~AllItems[1].ok
           /\ \A i \in 1..Len(AllItems) : ~AllItems[i].ok

C19_Witness ==
    /\ query.phase = "iterating"
    /\ query.handler = "ServiceTest"
    /\ query.clauses = <<Clause(FALSE, "service1", "name")>>
    /\ Len(collected) = 1
    /\ ~collected[1].ok

\* Example E4: the two services of TwoServiceTest, joined and ordered
TwoServicesJoined ==
    (query.phase # "none" /\ query.handler = "TwoServiceTest"
        /\ query.clauses = <<Clause(FALSE, "service1", "name"), Clause(FALSE, "service2", "mbox")>>)
        => AllItems = <<OkSolution(Binding(None, Some("Alice"), Some("mailto:alice"))),
                        OkSolution(Binding(None, Some("Bob"), Some("mailto:bob")))>>

----------------------------------------------------------------------------
(* Properties of the JavaScript bindings *)

\* The string is a hexadecimal 128-bit number: one or more hexadecimal
\* digits of either case, after an optional "+" sign, of which at most 32
\* follow the leading zeros
IsHex128(id) ==
    LET digits == IF id # <<>> /\ Head(id) = "+" THEN Tail(id) ELSE id
        HexChars == {"0", "1", "2", "3", "4", "5", "6", "7", "8", "9",
                     "a", "b", "c", "d", "e", "f", "A", "B", "C", "D", "E", "F"}
        significant == {i \in 1..Len(digits) : \E j \in 1..i : digits[j] # "0"}
    IN  /\ digits # <<>>
        /\ \A i \in 1..Len(digits) : digits[i] \in HexChars
        /\ Cardinality(significant) <= 32

\* A host object with termType "BlankNode" whose value is a string that is
\* no hexadecimal 128-bit number
ForeignBlankNode(v) ==
    /\ v.kind = "object"
    /\ v.termType = Some("BlankNode")
    /\ v.value # None
    /\ ~IsHex128(v.value[1])

HexBlankNodesProduced ==
    /\ (host.op = "blankNode" /\ host.arg # None /\ IsHex128(host.arg[1]))
        => produced.ok /\ produced.term.termType = "BlankNode"
    /\ (host.op = "fromTerm" /\ host.arg.kind = "object" /\ host.arg.termType = Some("BlankNode")
            /\ host.arg.value # None /\ IsHex128(host.arg.value[1]))
        => produced.ok /\ produced.term.termType = "BlankNode"

\* C21: every term t that namedNode, blankNode, literal (with no second
\* argument, a language string or a NamedNode datatype) or defaultGraph has
\* produced round-trips: fromTerm(t) succeeds and returns a term with the
\* termType, value, language and datatype of t.
C21_TermsRoundTrip ==
    host.op = "roundTrip"
        => /\ produced.ok
           /\ produced.term.termType = host.arg.termType
           /\ produced.term = host.arg

\* The terms round-trip, but for the literals whose datatype is
\* rdf:langString and that have no language
TermsRoundTripButLangString ==
    (host.op = "roundTrip"
        /\ ~(host.arg.termType = "Literal" /\ host.arg.datatype = RDF_LANG_STRING /\ host.arg.language = None))
        => /\ produced.ok
           /\ produced.term.termType = host.arg.termType
           /\ produced.term = host.arg

\* C22: the conversion of a quad of the bindings to a store Quad succeeds
\* exactly when the subject is a NamedNode or BlankNode, the predicate a
\* NamedNode, the object a NamedNode, BlankNode or Literal and the graph a
\* NamedNode, BlankNode or DefaultGraph; the DefaultGraph becomes the absent
\* graph name; every other combination is an error.
C22_QuadConversion ==
    host.op = "Quad::try_from"
        => /\ produced.ok <=>
                /\ host.arg.subject.termType \in {"NamedNode", "BlankNode"}
                /\ host.arg.predicate.termType = "NamedNode"
                /\ host.arg.object.termType \in {"NamedNode", "BlankNode", "Literal"}
                /\ host.arg.graph.termType \in {"NamedNode", "BlankNode", "DefaultGraph"}
           /\ produced.ok =>
                /\ produced.term.subject = host.arg.subject
                /\ produced.term.predicate = host.arg.predicate
                /\ produced.term.object = host.arg.object
                /\ produced.term.graph_name =
                       IF host.arg.graph.termType = "DefaultGraph" THEN None ELSE Some(host.arg.graph)

C22_Witness ==
    /\ host.op = "Quad::try_from"
    /\ host.arg.subject.termType = "BlankNode"
    /\ host.arg.object.termType = "Literal"
    /\ host.arg.graph.termType = "DefaultGraph"
    /\ produced.ok
    /\ produced.term.graph_name = None

----------------------------------------------------------------------------
(* The buffer of an auto transaction *)

\* C23: in an auto transaction a buffer of more than MAX_TRANSACTION_SIZE
\* operations after an insert or a remove is written to the database and
\* emptied, a smaller one is kept and nothing is written; so the buffer holds
\* at most MAX_TRANSACTION_SIZE operations whenever insert_encoded or
\* remove_encoded has returned.
C23_AutoFlushBoundsBuffer ==
    /\ [](pc = "load" =>
            /\ batch.len <= MAX_TRANSACTION_SIZE
            /\ \A q \in QuadPool, io \in BOOLEAN :
                    auto_remove_encoded(db, batch, EncodedQuadOf(q), io).batch.len
                        <= MAX_TRANSACTION_SIZE)
    /\ [][(pc = "load" /\ pc' = "load" /\ nRead' = nRead + 1) =>
            \E t \in TriplePool :
                LET enc == encode_quad(Tag(batch, nRead + 1), LoadedQuad(t, call.to_graph_name))
                    full == insert(enc.batch, enc.quad)
                IN  IF full.len > MAX_TRANSACTION_SIZE
                    THEN db' = DB_write(db, full) /\ batch' = WriteBatch_default
                            /\ writes' = writes + 1
                    ELSE db' = db /\ batch' = full /\ writes' = writes]_vars

\* An insert of a running load has just written and emptied the buffer.
C23_Witness ==
    /\ pc = "load"
    /\ nRead > 0
    /\ writes = 1
    /\ batch = WriteBatch_default
    /\ persisted = 1 .. nRead

\* The index column families in which the quad e is there in one of the
\* databases d and after and not in the other
ChangedIn(d, after, e) ==
    {cf \in IndexCFs : HasKey(d, cf, KeyIn(cf, e)) # HasKey(after, cf, KeyIn(cf, e))}

\* The index column families in which the batch b holds a write of the quad e
BufferedIn(b, e) == {cf \in IndexCFs : <<cf, KeyIn(cf, e)>> \in DOMAIN b.ops}

\* C24: a flush of an auto transaction never splits a quad.  Between the
\* operations of a load the buffer holds the six index writes of a quad or
\* none of them, all six of one kind, and every DB::write of an auto
\* transaction (a flush, the final commit, the write of insert and of remove)
\* changes a quad in all six indexes or in none.
C24_FlushKeepsQuadsWhole ==
    /\ [](pc = "load" =>
            \A e \in QuadsOf(db) :
                /\ BufferedIn(batch, e) \in {{}, IndexCFs}
                /\ \A cf \in BufferedIn(batch, e) : batch.ops[<<cf, KeyIn(cf, e)>>].kind = "put")
    /\ [][pc # "closure" =>
            \A e \in QuadsOf(db) \cup QuadsOf(db') :
                ChangedIn(db, db', e) \in {{}, IndexCFs}]_vars

\* A flush of a running load has put a quad into all six indexes.
C24_Witness ==
    /\ pc = "load"
    /\ writes = 1
    /\ batch = WriteBatch_default
    /\ \E e \in EncodedPool : ChangedIn(shadow, db, e) = IndexCFs

----------------------------------------------------------------------------
(* The dispatch of a pattern to an index and a prefix *)

\* The index and the prefix for each of the sets of bound slots but the full one
SelectedIndex(pat) ==
    LET s == pat.subject
        p == pat.predicate
        o == pat.object
        g == pat.graph_name
        bound == <<s # None, p # None, o # None, g # None>>
    IN  CASE bound = <<FALSE, FALSE, FALSE, FALSE>> -> <<SPOG_CF, <<>>>>
          [] bound = <<TRUE, FALSE, FALSE, FALSE>> -> <<SPOG_CF, s[1]>>
          [] bound = <<TRUE, TRUE, FALSE, FALSE>> -> <<SPOG_CF, s[1] \o p[1]>>
          [] bound = <<TRUE, TRUE, TRUE, FALSE>> -> <<SPOG_CF, s[1] \o p[1] \o o[1]>>
          [] bound = <<FALSE, TRUE, FALSE, FALSE>> -> <<POSG_CF, p[1]>>
          [] bound = <<FALSE, TRUE, TRUE, FALSE>> -> <<POSG_CF, p[1] \o o[1]>>
          [] bound = <<FALSE, FALSE, TRUE, FALSE>> -> <<OSPG_CF, o[1]>>
          [] bound = <<TRUE, FALSE, TRUE, FALSE>> -> <<OSPG_CF, o[1] \o s[1]>>
          [] bound = <<FALSE, FALSE, FALSE, TRUE>> -> <<GSPO_CF, g[1]>>
          [] bound = <<TRUE, FALSE, FALSE, TRUE>> -> <<GSPO_CF, g[1] \o s[1]>>
          [] bound = <<TRUE, TRUE, FALSE, TRUE>> -> <<GSPO_CF, g[1] \o s[1] \o p[1]>>
          [] bound = <<FALSE, TRUE, FALSE, TRUE>> -> <<GPOS_CF, g[1] \o p[1]>>
          [] bound = <<FALSE, TRUE, TRUE, TRUE>> -> <<GPOS_CF, g[1] \o p[1] \o o[1]>>
          [] bound = <<FALSE, FALSE, TRUE, TRUE>> -> <<GOSP_CF, g[1] \o o[1]>>
          [] bound = <<TRUE, FALSE, TRUE, TRUE>> -> <<GOSP_CF, g[1] \o o[1] \o s[1]>>

\* Every key of the index cf of d that starts with prefix, in the order of
\* the index, read back in the order subject, predicate, object, graph
PrefixScan(d, cf, prefix) ==
    LET hits == SelectSeq(raw_iterator_cf(d, cf), LAMBDA k : starts_with(k, prefix))
    IN  [i \in 1 .. Len(hits) |-> QuadIn(cf, hits[i])]

\* What the dispatch has to return for the pattern pat of encoded terms
Dispatched(d, pat) ==
    IF pat.subject # None /\ pat.predicate # None /\ pat.object # None /\ pat.graph_name # None
    THEN LET quad == EncodedQuad(pat.subject[1], pat.predicate[1], pat.object[1], pat.graph_name[1])
         IN  IF write_spog_quad(quad) \in DOMAIN d[SPOG_CF] THEN <<quad>> ELSE <<>>
    ELSE PrefixScan(d, SelectedIndex(pat)[1], SelectedIndex(pat)[2])

\* C25: the dispatch selects index and prefix by the bound slots: none, s,
\* s+p, s+p+o scan spog; p, p+o scan posg; o, s+o scan ospg; g, g+s, g+s+p scan
\* gspo; g+p, g+p+o scan gpos; g+o, g+s+o scan gosp, each with the bound terms
\* in the order of the index as prefix, and all four bound is a point lookup
\* on spog.  Every key of the index that starts with the prefix is returned,
\* read back in the order subject, predicate, object, graph; a read of the
\* session yields these quads, decoded.
C25_DispatchByBoundSlots ==
    /\ \A pat \in EncodedPatterns(db) : EncodedRead(db, pat) = Dispatched(db, pat)
    /\ call.kind = "quads_for_pattern" =>
            LET found == Dispatched(db, EncodedPatternOf(pattern))
            IN  yielded = [i \in 1 .. Len(found) |-> decode_quad(db, found[i])]

\* A read with subject and object bound has scanned ospg and yielded some of
\* the quads of the store, not all.
C25_Witness ==
    /\ call.kind = "quads_for_pattern"
    /\ pattern.subject # None /\ pattern.object # None
    /\ pattern.predicate = None /\ pattern.graph_name = None
    /\ Len(yielded) >= 1
    /\ Len(yielded) < Cardinality(DOMAIN db[SPOG_CF])

----------------------------------------------------------------------------
(* What a read yields, as a whole *)

\* The items of the sequence f are pairwise distinct.
NoRepeats(f) == \A i, j \in DOMAIN f : f[i] = f[j] => i = j

\* The encoded quads of f come in ascending order of their keys in the index cf.
AscendingIn(cf, f) ==
    \A i \in 1 .. (Len(f) - 1) : LexLess(KeyIn(cf, f[i]), KeyIn(cf, f[i + 1]))

\* Before decoding a read is exact: for each of the sixteen sets of bound
\* slots encoded_quads_for_pattern returns the encoded quads of the store
\* that have the pattern's terms in the bound slots, each once, in ascending
\* order of the keys of the selected index.
EncodedReadsExact ==
    \A pat \in EncodedPatterns(db) :
        LET found == EncodedRead(db, pat)
        IN  /\ Range(found) = {e \in QuadsOf(db) : contains(db, e) /\ MatchesEncoded(pat, e)}
            /\ NoRepeats(found)
            /\ Len(found) > 1 => AscendingIn(SelectedIndex(pat)[1], found)

\* C26: a read yields exactly the stored quads that agree with the pattern
\* in every bound slot: no item differs from the pattern in a bound slot,
\* every stored quad that matches is yielded once, and the items come in
\* ascending order of the keys of the selected index.
C26_ReadIsExact ==
    call.kind = "quads_for_pattern" =>
        /\ Range(yielded) = {OkItem(Q) : Q \in {q \in stored : Matches(pattern, q)}}
        /\ NoRepeats(yielded)
        /\ Len(yielded) > 1 =>
              AscendingIn(SelectedIndex(EncodedPatternOf(pattern))[1],
                          [i \in 1 .. Len(yielded) |-> EncodedQuadOf(yielded[i].quad)])

\* The last read had all four slots bound.
FullyBound ==
    /\ call.kind = "quads_for_pattern"
    /\ pattern.subject # None /\ pattern.predicate # None
    /\ pattern.object # None /\ pattern.graph_name # None

\* The quad a pattern with all four slots bound names
QuadOfPattern(pat) ==
    Quad(pat.subject[1], pat.predicate[1], pat.object[1], pat.graph_name[1])

\* Up to the hashes of its strings a fully bound read is a point lookup: it
\* yields one item when contains answers true and none when it answers
\* false, and the item is a quad with the key of the pattern's quad.
FullyBoundUpToHash ==
    FullyBound =>
        /\ Len(yielded) = IF contains(db, EncodedQuadOf(QuadOfPattern(pattern))) THEN 1 ELSE 0
        /\ \A item \in Range(yielded) :
              item.ok /\ EncodedQuadOf(item.quad) = EncodedQuadOf(QuadOfPattern(pattern))

\* C27: a read with all four slots bound is a point lookup on spog: it yields
\* the quad (s, p, o, g) of the pattern, and nothing else, when contains
\* answers true for that quad, and nothing when it answers false.
C27_FullyBoundIsPointLookup ==
    FullyBound =>
        yielded = IF contains(db, EncodedQuadOf(QuadOfPattern(pattern)))
                  THEN <<OkItem(QuadOfPattern(pattern))>>
                  ELSE <<>>

----------------------------------------------------------------------------
(* An iterator and the writes that follow its creation *)

\* The sequence f is the beginning of the sequence g.
IsPrefixOf(f, g) == Len(f) <= Len(g) /\ \A i \in 1 .. Len(f) : f[i] = g[i]

\* What the open iterator has yielded and has still to give, encoded
CursorKeys ==
    [i \in 1 .. Len(yielded) |-> EncodedQuadOf(yielded[i].quad)] \o cursor.rest

\* Up to the hashes of the strings an iterator is a snapshot: whatever is
\* written after its creation, it yields the quads whose keys the selected
\* index held when it was created, none more and none less.
CursorIsSnapshotUpToHash ==
    cursor.phase # "none" =>
        /\ \A item \in Range(yielded) : item.ok
        /\ CursorKeys = [i \in 1 .. Len(cursor.created) |-> EncodedQuadOf(cursor.created[i].quad)]

\* C28: an iterator quads_for_pattern returned yields the quads of the store
\* as it was when the iterator was created: a commit or a flush of a load that
\* comes after the creation and before the end of the iteration adds no quad
\* to what it yields and takes none away.
C28_IteratorIsSnapshot ==
    /\ cursor.phase # "none" => IsPrefixOf(yielded, cursor.created)
    /\ cursor.phase = "done" => yielded = cursor.created

----------------------------------------------------------------------------
(* The order of the operations of one transaction *)

\* The batch of the closure after transaction.insert(q), after
\* transaction.remove(q), and the database after the commit of a batch
InsertedInto(b, q) ==
    LET enc == encode_quad(b, q)
    IN  tx_insert_encoded(db, enc.batch, enc.quad, TRUE).batch
RemovedFrom(b, q) == tx_remove_encoded(db, b, EncodedQuadOf(q), TRUE).batch
Committed(b) == StoreTransaction(db, b, TRUE, TRUE).db

\* C29: the operations of one transaction take effect in the order they were
\* issued.  Whatever the closure has buffered so far: when it inserts a quad
\* and later removes it, the quad is in none of the six indexes after the
\* commit; when it removes a quad and later inserts it, the quad is in all
\* six; and the commit leaves every quad as the last operation on it says.
C29_IssueOrder ==
    /\ [](pc = "closure" =>
            \A q \in QuadPool :
                LET e == EncodedQuadOf(q)
                    absent == Committed(RemovedFrom(InsertedInto(batch, q), q))
                    present == Committed(InsertedInto(RemovedFrom(batch, q), q))
                IN  InNoneOfSix(absent, e) /\ InAllSix(present, e))
    /\ [][(pc = "closure" /\ result' = "Ok") =>
            \A e \in EncodedPool :
                BufferedIn(batch, e) # {} =>
                    IF batch.ops[<<SPOG_CF, KeyIn(SPOG_CF, e)>>].kind = "put"
                    THEN InAllSix(db', e) ELSE InNoneOfSix(db', e)]_vars

\* On an empty store a transaction that inserted a quad and then removed it
\* was committed: the strings of the quad are stored and no index has a key.
C29_Witness ==
    /\ call.kind = "transaction"
    /\ result = "Ok"
    /\ pc = "idle"
    /\ shadow = StoreOpen(EmptyDB)
    /\ db[ID2STR_CF] # shadow[ID2STR_CF]
    /\ \A cf \in IndexCFs : DOMAIN db[cf] = {}

----------------------------------------------------------------------------
(* What the writes of an auto transaction add up to *)

\* Every position of the set S comes before every position of the set T.
AllBefore(S, T) == \A i \in S, j \in T : i < j

\* C30: across the flushes and the final commit of a load that returns Ok
\* every buffered operation is written once, in the order of issue.  A flush
\* hands the whole buffer to one DB::write and leaves the empty batch; what it
\* writes was written by no earlier flush and was issued after everything an
\* earlier flush wrote; the final commit writes the rest, and then the
\* positions written are all the positions of the input, none twice.
C30_EveryOperationWrittenOnce ==
    /\ [][(pc = "load" /\ pc' = "load" /\ writes' = writes + 1) =>
            LET written == persisted' \ persisted
            IN  /\ written = batch.quads \cup {nRead'}
                /\ nRead' = nRead + 1
                /\ written \cap persisted = {}
                /\ AllBefore(persisted, written)
                /\ batch' = WriteBatch_default
                /\ \E t \in TriplePool :
                      LET enc == encode_quad(Tag(batch, nRead'), LoadedQuad(t, call.to_graph_name))
                      IN  db' = DB_write(db, insert(enc.batch, enc.quad))]_vars
    /\ [][(pc = "load" /\ pc' = "load" /\ writes' = writes) =>
            (persisted' = persisted /\ batch'.quads \in {batch.quads, batch.quads \cup {nRead'}})]_vars
    /\ [][(pc = "load" /\ result' = "Ok") =>
            /\ db' = DB_write(db, batch)
            /\ writes' = writes + 1
            /\ persisted \cap batch.quads = {}
            /\ AllBefore(persisted, batch.quads)
            /\ persisted \cup batch.quads = 1 .. nRead]_vars

\* A load_dataset has returned Ok after one flush and the final commit of
\* what was buffered after the flush.
C30_Witness ==
    /\ pc = "idle"
    /\ call.kind = "load_dataset"
    /\ result = "Ok"
    /\ writes = 2
    /\ call.held = 1

====
